---- MODULE Spec2Model ----
(***************************************************************************)
(* The PDC agent: the key manager (pkg/ssh/keymanager.go), the supervised  *)
(* ssh client (pkg/ssh/ssh.go), the retry driver (pkg/retry/retry.go) and  *)
(* run() of cmd/pdc/main.go.                                               *)
(*                                                                         *)
(* Files on disk are abstracted to what the parsers of the code tell       *)
(* apart: a file is missing, holds bytes that do not parse, or holds a     *)
(* parsable value.  Key material is a key number; two files belong         *)
(* together when they carry the same key number.  Time is the Unix time in *)
(* whole seconds, as newCertRequired reads it.                             *)
(***************************************************************************)
EXTENDS Integers, FiniteSets, Sequences, TLC

\* ------------------------------------------------------------------ bounds
MaxTime == 3
MaxLaunches == 2
MaxCalls == 2
CertTTL == 2
NumArgs == 2
MaxAttempts == 4
MaxRetryMax == 2
RangeSpan == 3

\* -------------------------------------------------------- program constants
ConnectionLimitReachedCode == 254

\* Exit codes the ssh subprocess ends with on its own.
ExitCodes == {0, 1, ConnectionLimitReachedCode}

\* Callers of CreateKeys: Client.starting, the retry closure, and the tests.
Callers == {"starting", "restart", "test"}

\* ------------------------------------------------------------- disk files
NoFile == [st |-> "missing", key |-> 0, va |-> 0, vb |-> 0]
Garbage == [st |-> "garbage", key |-> 0, va |-> 0, vb |-> 0]
PrivKey(k) == [st |-> "pem", key |-> k, va |-> 0, vb |-> 0]
PubKey(k) == [st |-> "authkey", key |-> k, va |-> 0, vb |-> 0]
Cert(k, a, b) == [st |-> "cert", key |-> k, va |-> a, vb |-> b]
Hosts == [st |-> "hosts", key |-> 0, va |-> 0, vb |-> 0]
HashText(h) == [st |-> "text", key |-> h, va |-> 0, vb |-> 0]
\* A file that is there and cannot be read.
Unreadable == [st |-> "unreadable", key |-> 0, va |-> 0, vb |-> 0]

EmptyDisk == [priv |-> NoFile, pub |-> NoFile, cert |-> NoFile, kh |-> NoFile, hash |-> NoFile]

VARIABLES
    disk,       \* the five identity files
    cfg,        \* [force, args, flagsOK]: ForceKeyFileOverwrite, the hashed arguments, whether the ssh flags can be derived
    now,        \* Unix time, seconds
    nextKey,    \* the next fresh key
    ck,         \* per caller, the CreateKeys call in progress
    calls,      \* CreateKeys calls begun by the test harness
    prev,       \* the last returned CreateKeys call of the test harness
    ctxCancelled, \* the context of run() is cancelled
    svcState,   \* dskit service state of the ssh client
    svcpc,      \* position of the service goroutine
    mainpc,     \* position of run()
    looppc,     \* position of the retry.Forever goroutine
    attempt,    \* retry.Forever's attempt counter
    proc,       \* the ssh subprocess is alive
    lastExit,   \* exit code of the last subprocess run (-2: none)
    exited,     \* exit code of the agent process (-1: still running)
    launches,   \* subprocess launches so far
    hist,       \* history of the run, read only by the properties
    rf,         \* retry.Forever: its options, the calls of fn, the backoff computed last
    sc,         \* the signing client: one SignSSHKey call and its HTTP attempts
    mf,         \* main before run(): the flags and where main stands
    rnd         \* one call of random.Range

unitVars == <<sc, mf, rnd>>

vars == <<disk, cfg, now, nextKey, ck, calls, prev, ctxCancelled, svcState, svcpc,
          mainpc, looppc, attempt, proc, lastExit, exited, launches, hist, rf, unitVars>>

kmVars == <<disk, nextKey, ck>>
runVars == <<ctxCancelled, svcState, svcpc, mainpc, looppc, attempt, proc,
                      lastExit, exited, launches, hist, rf>>

agentVars == <<runVars, unitVars>>

\* ------------------------------------------------------ key manager: checks

\* newKeysRequired as it would be if it looked at the private key file only.
NewKeysRequired_PrivOnly(d) ==
    IF d.priv.st = "missing" THEN TRUE
    ELSE IF d.priv.st # "pem" THEN TRUE
    ELSE FALSE

\* KeyManager.newKeysRequired: the private key must be readable and PEM-decode,
\* the public key must be readable and parse as an authorized key.
NewKeysRequired(d) ==
    IF d.priv.st = "missing" THEN TRUE
    ELSE IF d.priv.st # "pem" THEN TRUE
    ELSE IF d.pub.st = "missing" THEN TRUE
    ELSE IF d.pub.st \notin {"authkey", "cert"} THEN TRUE
    ELSE FALSE

\* newCertRequired as it would be without the look at the known-hosts file.
NewCertRequired_NoKnownHosts(d, t) ==
    IF d.cert.st = "missing" THEN TRUE
    ELSE IF d.cert.st \notin {"authkey", "cert"} THEN TRUE
    ELSE IF d.cert.st # "cert" THEN TRUE
    ELSE IF t > d.cert.vb THEN TRUE
    ELSE IF t < d.cert.va THEN TRUE
    ELSE FALSE

\* newCertRequired as it would be without the validAfter comparison.
NewCertRequired_NoValidAfter(d, t) ==
    IF d.cert.st = "missing" THEN TRUE
    ELSE IF d.cert.st \notin {"authkey", "cert"} THEN TRUE
    ELSE IF d.cert.st # "cert" THEN TRUE
    ELSE IF t > d.cert.vb THEN TRUE
    ELSE IF d.kh.st = "missing" THEN TRUE
    ELSE IF d.kh.st # "hosts" THEN TRUE
    ELSE FALSE

\* KeyManager.newCertRequired at Unix time t.
NewCertRequired(d, t) ==
    IF d.cert.st = "missing" THEN TRUE
    ELSE IF d.cert.st \notin {"authkey", "cert"} THEN TRUE
    ELSE IF d.cert.st # "cert" THEN TRUE
    ELSE IF t > d.cert.vb THEN TRUE
    ELSE IF t < d.cert.va THEN TRUE
    ELSE IF d.kh.st = "missing" THEN TRUE
    ELSE IF d.kh.st # "hosts" THEN TRUE
    ELSE FALSE

\* KeyManager.argumentsHash: a digest of the hashed arguments.  Distinct
\* arguments give distinct digests (sha256); the digest is not the argument.
ArgumentsHash(c) == 100 + c.args

\* argumentsHashIsDifferent as it would be if only a missing file counted.
ArgumentsHashIsDifferent_NotExistOnly(d, hash) == d.hash.st = "missing"

\* KeyManager.argumentsHashIsDifferent: no hash file, or other contents.  A
\* file that cannot be read gives empty contents, which differ from any hash.
ArgumentsHashIsDifferent(d, hash) ==
    IF d.hash.st = "missing" THEN TRUE
    ELSE d.hash # HashText(hash)

\* KeyManager.generateKeyPair: a fresh pair k replaces both key files.
GenerateKeyPair(d, k) == [d EXCEPT !.priv = PrivKey(k), !.pub = PubKey(k)]

\* The signing service's answer for public key k at time t, as generateCert
\* persists it: the certificate over k and the known-hosts bundle.
WriteSigningResponse(d, k, t) == [d EXCEPT !.cert = Cert(k, t, t + CertTTL), !.kh = Hosts]

\* KeyManager.writeHashFile
WriteHashFile(d, hash) == [d EXCEPT !.hash = HashText(hash)]

\* os.MkdirAll can only fail when the key directory is not there yet.
DirMayBeMissing(d) ==
    /\ d.priv.st = "missing" /\ d.pub.st = "missing" /\ d.cert.st = "missing"
    /\ d.kh.st = "missing" /\ d.hash.st = "missing"

\* ------------------------------------------------------ key manager: a call

\* wrote: the files the call has written; malformed: the signing service
\* answered the call's request with a certificate field of the wrong shape.
IdleCall == [stage |-> "idle", newCert |-> FALSE, genKeys |-> FALSE, signs |-> 0,
             reqKey |-> 0, err |-> FALSE, d0 |-> EmptyDisk, t0 |-> 0,
             wrote |-> {}, malformed |-> FALSE]

\* The caller enters CreateKeys.
BeginCall(t) ==
    [ck EXCEPT ![t] = [IdleCall EXCEPT !.stage = "ensureKeys", !.d0 = disk, !.t0 = now]]

Active(t) == ck[t].stage \notin {"idle", "returned"}

\* Stages that only read and write local files: they take no time on the
\* one-second clock.  A call waiting for the signing service does.
LocalStage(t) == ck[t].stage \in {"ensureKeys", "hashCheck", "ensureCert", "writeHash"}

\* ensureKeysExist as it would be if it returned false after generating.
EnsureKeysExist_NoCertFlag(t) ==
    /\ ck[t].stage = "ensureKeys"
    /\ LET r == cfg.force \/ NewKeysRequired(disk) IN
       IF ~r
       THEN /\ ck' = [ck EXCEPT ![t].stage = "hashCheck", ![t].newCert = FALSE]
            /\ UNCHANGED <<disk, nextKey>>
       ELSE \/ /\ DirMayBeMissing(disk)
               /\ ck' = [ck EXCEPT ![t].stage = "returned", ![t].err = TRUE]
               /\ UNCHANGED <<disk, nextKey>>
            \/ /\ disk' = GenerateKeyPair(disk, nextKey)
               /\ nextKey' = nextKey + 1
               /\ ck' = [ck EXCEPT ![t].stage = "hashCheck", ![t].newCert = FALSE,
                                   ![t].genKeys = TRUE,
                                   ![t].wrote = ck[t].wrote \cup {"priv", "pub"}]

\* ensureKeysExist as it would be if it returned false, nil on every call.
EnsureKeysExist_NeverGenerates(t) ==
    /\ ck[t].stage = "ensureKeys"
    /\ ck' = [ck EXCEPT ![t].stage = "hashCheck", ![t].newCert = FALSE]
    /\ UNCHANGED <<disk, nextKey>>

\* ensureKeysExist as it would be if it generated a pair on every call.
EnsureKeysExist_AlwaysNew(t) ==
    /\ ck[t].stage = "ensureKeys"
    /\ \/ /\ DirMayBeMissing(disk)
          /\ ck' = [ck EXCEPT ![t].stage = "returned", ![t].err = TRUE]
          /\ UNCHANGED <<disk, nextKey>>
       \/ /\ disk' = [disk EXCEPT !.priv = PrivKey(nextKey), !.pub = PubKey(nextKey)]
          /\ nextKey' = nextKey + 1
          /\ ck' = [ck EXCEPT ![t].stage = "hashCheck", ![t].newCert = TRUE,
                              ![t].genKeys = TRUE,
                              ![t].wrote = ck[t].wrote \cup {"priv", "pub"}]

\* ensureKeysExist as it would be if it did not look at forceCreate.
EnsureKeysExist_ForceIgnored(t) ==
    /\ ck[t].stage = "ensureKeys"
    /\ LET r == NewKeysRequired(disk) IN
       IF ~r
       THEN /\ ck' = [ck EXCEPT ![t].stage = "hashCheck", ![t].newCert = FALSE]
            /\ UNCHANGED <<disk, nextKey>>
       ELSE \/ /\ DirMayBeMissing(disk)
               /\ ck' = [ck EXCEPT ![t].stage = "returned", ![t].err = TRUE]
               /\ UNCHANGED <<disk, nextKey>>
            \/ /\ disk' = GenerateKeyPair(disk, nextKey)
               /\ nextKey' = nextKey + 1
               /\ ck' = [ck EXCEPT ![t].stage = "hashCheck", ![t].newCert = TRUE,
                                   ![t].genKeys = TRUE,
                                   ![t].wrote = ck[t].wrote \cup {"priv", "pub"}]

\* CreateKeys, first step: ensureKeysExist(cfg.ForceKeyFileOverwrite).
EnsureKeysExist(t) ==
    /\ ck[t].stage = "ensureKeys"
    /\ LET r == cfg.force \/ NewKeysRequired(disk) IN
       IF ~r
       THEN /\ ck' = [ck EXCEPT ![t].stage = "hashCheck", ![t].newCert = FALSE]
            /\ UNCHANGED <<disk, nextKey>>
       ELSE \/ /\ DirMayBeMissing(disk)
               /\ ck' = [ck EXCEPT ![t].stage = "returned", ![t].err = TRUE]
               /\ UNCHANGED <<disk, nextKey>>
            \/ /\ disk' = GenerateKeyPair(disk, nextKey)
               /\ nextKey' = nextKey + 1
               /\ ck' = [ck EXCEPT ![t].stage = "hashCheck", ![t].newCert = TRUE,
                                   ![t].genKeys = TRUE,
                                   ![t].wrote = ck[t].wrote \cup {"priv", "pub"}]

\* CreateKeys as it would be if it wrote the hash file when it compares it.
HashCheck_WritesHash(t) ==
    /\ ck[t].stage = "hashCheck"
    /\ ck' = [ck EXCEPT ![t].stage = "ensureCert",
                        ![t].newCert = ck[t].newCert \/ ArgumentsHashIsDifferent(disk, ArgumentsHash(cfg)),
                        ![t].wrote = ck[t].wrote \cup {"hash"}]
    /\ disk' = WriteHashFile(disk, ArgumentsHash(cfg))
    /\ UNCHANGED nextKey

\* CreateKeys as it would be without the comparison of the arguments hash.
HashCheck_Ignored(t) ==
    /\ ck[t].stage = "hashCheck"
    /\ ck' = [ck EXCEPT ![t].stage = "ensureCert"]
    /\ UNCHANGED <<disk, nextKey>>

\* CreateKeys, second step: the arguments hash against the hash file.
HashCheck(t) ==
    /\ ck[t].stage = "hashCheck"
    /\ ck' = [ck EXCEPT ![t].stage = "ensureCert",
                        ![t].newCert = ck[t].newCert \/ ArgumentsHashIsDifferent(disk, ArgumentsHash(cfg))]
    /\ UNCHANGED <<disk, nextKey>>

\* ensureCertExists as it would be if it asked for a certificate on every call.
EnsureCertExists_AlwaysSign(t) ==
    /\ ck[t].stage = "ensureCert"
    /\ IF disk.pub.st = "missing"
       THEN ck' = [ck EXCEPT ![t].stage = "returned", ![t].err = TRUE]
       ELSE ck' = [ck EXCEPT ![t].stage = "signing", ![t].signs = ck[t].signs + 1,
                             ![t].reqKey = disk.pub.key]
    /\ UNCHANGED <<disk, nextKey>>

\* CreateKeys, third step: ensureCertExists(ctx, newCertRequired).  A needed
\* certificate sends the public key on disk to the signing service.
EnsureCertExists(t) ==
    /\ ck[t].stage = "ensureCert"
    /\ IF ck[t].newCert \/ NewCertRequired(disk, now)
       THEN IF disk.pub.st = "missing"
            THEN ck' = [ck EXCEPT ![t].stage = "returned", ![t].err = TRUE]
            ELSE ck' = [ck EXCEPT ![t].stage = "signing", ![t].signs = ck[t].signs + 1,
                                  ![t].reqKey = disk.pub.key]
       ELSE ck' = [ck EXCEPT ![t].stage = "writeHash"]
    /\ UNCHANGED <<disk, nextKey>>

\* What comes back for a signing request: the HTTP exchange fails (ok is
\* FALSE: a network error, a status such as 400), or it delivers a JSON body.
\* Of a body: whether it has a field other than certificate and known_hosts,
\* how many PEM blocks its certificate field holds, and what the payload of
\* the first block parses to.
Replies == [ok : BOOLEAN, unknown : BOOLEAN, pems : 0..2, payload : {"cert", "key", "junk"}]

\* The shapes the claims on malformed responses are about: two PEM blocks, or
\* one PEM block whose payload is a key that is not a certificate.
Malformed(r) == r.ok /\ ~r.unknown /\ (r.pems = 2 \/ (r.pems = 1 /\ r.payload = "key"))

\* UnmarshalJSON as it would be without the type assertion on the parsed key.
UnmarshalJSON_KeyAccepted(r) ==
    IF r.unknown THEN "decode"
    ELSE IF r.pems = 0 THEN "pem-decode"
    ELSE IF r.pems > 1 THEN "only expected one PEM"
    ELSE IF r.payload = "junk" THEN "parse"
    ELSE "nil"

\* UnmarshalJSON as it would be without the look at the rest after the first
\* PEM block.
UnmarshalJSON_RestIgnored(r) ==
    IF r.unknown THEN "decode"
    ELSE IF r.pems = 0 THEN "pem-decode"
    ELSE IF r.payload = "junk" THEN "parse"
    ELSE IF r.payload # "cert" THEN "not a certificate"
    ELSE "nil"

\* SigningResponse.UnmarshalJSON: the error it returns, "nil" for none.
UnmarshalJSON(r) ==
    IF r.unknown THEN "decode"
    ELSE IF r.pems = 0 THEN "pem-decode"
    ELSE IF r.pems > 1 THEN "only expected one PEM"
    ELSE IF r.payload = "junk" THEN "parse"
    ELSE IF r.payload # "cert" THEN "not a certificate"
    ELSE "nil"

\* pdcClient.SignSSHKey: one call of the API, then UnmarshalJSON of its body.
SignSSHKey(r) == IF ~r.ok THEN "call" ELSE UnmarshalJSON(r)

\* generateCert: the signing call returns; its answer is persisted, or its
\* error aborts CreateKeys.
SignResponse(t) ==
    /\ ck[t].stage = "signing"
    /\ \E r \in Replies :
          IF SignSSHKey(r) = "nil"
          THEN /\ disk' = WriteSigningResponse(disk, ck[t].reqKey, now)
               /\ ck' = [ck EXCEPT ![t].stage = "writeHash",
                                   ![t].malformed = Malformed(r),
                                   ![t].wrote = ck[t].wrote \cup {"cert", "kh"}]
          ELSE /\ ck' = [ck EXCEPT ![t].stage = "returned", ![t].err = TRUE,
                                   ![t].malformed = Malformed(r)]
               /\ UNCHANGED disk
    /\ UNCHANGED nextKey

\* CreateKeys as it would be if it returned nil without writing the hash file.
WriteHash_Skipped(t) ==
    /\ ck[t].stage = "writeHash"
    /\ ck' = [ck EXCEPT ![t].stage = "returned", ![t].err = FALSE]
    /\ UNCHANGED <<disk, nextKey>>

\* CreateKeys, last step: writeHashFile, then return nil.
WriteHash(t) ==
    /\ ck[t].stage = "writeHash"
    /\ disk' = WriteHashFile(disk, ArgumentsHash(cfg))
    /\ ck' = [ck EXCEPT ![t].stage = "returned", ![t].err = FALSE,
                        ![t].wrote = ck[t].wrote \cup {"hash"}]
    /\ UNCHANGED nextKey

\* generateCert's error as CreateKeys would treat it if it went on after it.
SignResponse_ErrorSwallowed(t) ==
    /\ ck[t].stage = "signing"
    /\ \E r \in Replies :
          IF SignSSHKey(r) = "nil"
          THEN /\ disk' = WriteSigningResponse(disk, ck[t].reqKey, now)
               /\ ck' = [ck EXCEPT ![t].stage = "writeHash",
                                   ![t].malformed = Malformed(r),
                                   ![t].wrote = ck[t].wrote \cup {"cert", "kh"}]
          ELSE /\ ck' = [ck EXCEPT ![t].stage = "writeHash",
                                   ![t].malformed = Malformed(r)]
               /\ UNCHANGED disk
    /\ UNCHANGED nextKey

\* generateCert as it would be if it asked again after a failed request.
SignResponse_Retried(t) ==
    /\ ck[t].stage = "signing"
    /\ \E r \in Replies :
          IF SignSSHKey(r) = "nil"
          THEN /\ disk' = WriteSigningResponse(disk, ck[t].reqKey, now)
               /\ ck' = [ck EXCEPT ![t].stage = "writeHash",
                                   ![t].malformed = Malformed(r),
                                   ![t].wrote = ck[t].wrote \cup {"cert", "kh"}]
          ELSE /\ IF ck[t].signs < 2
                  THEN ck' = [ck EXCEPT ![t].signs = ck[t].signs + 1,
                                        ![t].malformed = Malformed(r)]
                  ELSE ck' = [ck EXCEPT ![t].stage = "returned", ![t].err = TRUE,
                                        ![t].malformed = Malformed(r)]
               /\ UNCHANGED disk
    /\ UNCHANGED nextKey

\* CreateKeys as it would be if the signing call went through a retry.
CreateKeys_SigningRetried(t) ==
    \/ EnsureKeysExist(t)
    \/ HashCheck(t)
    \/ EnsureCertExists(t)
    \/ SignResponse_Retried(t)
    \/ WriteHash(t)

\* CreateKeys as it would be if it dropped the error of ensureCertExists.
CreateKeys_SignErrorSwallowed(t) ==
    \/ EnsureKeysExist(t)
    \/ HashCheck(t)
    \/ EnsureCertExists(t)
    \/ SignResponse_ErrorSwallowed(t)
    \/ WriteHash(t)

\* One step of CreateKeys for caller t.
CreateKeys(t) ==
    \/ EnsureKeysExist(t)
    \/ HashCheck(t)
    \/ EnsureCertExists(t)
    \/ SignResponse(t)
    \/ WriteHash(t)

\* ------------------------------------------------------------------- time

\* Steps that only compute or touch local files take no time on the
\* one-second clock: a local stage of CreateKeys, the steps of Client.starting
\* around it, and the closure between two waits.  Time passes while the agent
\* waits: for the signing service, for the subprocess, in the backoff sleep,
\* and between two calls of a test.
Urgent ==
    \/ \E t \in Callers : LocalStage(t) \/ ck[t].stage = "returned"
    \/ svcpc \in {"starting", "flags"}
    \/ looppc \in {"call", "afterRun"}

\* A second passes.
Tick ==
    /\ now < MaxTime
    /\ exited = -1
    /\ ~Urgent
    /\ now' = now + 1
    /\ UNCHANGED <<disk, cfg, nextKey, ck, calls, prev, agentVars>>

\* -------------------------------------------- the key manager under its tests

NoPrev == [valid |-> FALSE, err |-> FALSE, signs |-> 0, d0 |-> EmptyDisk, disk |-> EmptyDisk]

\* A test calls km.CreateKeys(ctx).
TestCall ==
    /\ ck["test"].stage = "idle"
    /\ calls < MaxCalls
    /\ ck' = BeginCall("test")
    /\ calls' = calls + 1
    /\ UNCHANGED <<disk, cfg, now, nextKey, prev, agentVars>>

\* The call runs.
TestStep ==
    /\ CreateKeys("test")
    /\ UNCHANGED <<cfg, now, calls, prev, agentVars>>

\* The call has returned to the test.
TestReturn ==
    /\ ck["test"].stage = "returned"
    /\ prev' = [valid |-> TRUE, err |-> ck["test"].err, signs |-> ck["test"].signs,
                d0 |-> ck["test"].d0, disk |-> disk]
    /\ ck' = [ck EXCEPT !["test"] = IdleCall]
    /\ UNCHANGED <<disk, cfg, now, nextKey, calls, agentVars>>

\* Between two calls the test changes a hashed argument of the configuration.
TestSetArgs ==
    /\ ck["test"].stage = "idle"
    /\ calls >= 1
    /\ calls < MaxCalls
    /\ \E a \in 1..NumArgs :
          /\ a # cfg.args
          /\ cfg' = [cfg EXCEPT !.args = a]
    /\ UNCHANGED <<disk, now, nextKey, ck, calls, prev, agentVars>>

\* ------------------------------------------------------------- the agent

NoHist == [launchDisk |-> EmptyDisk, launchNow |-> 0, fatalSeen |-> FALSE,
           cancelInBackoff |-> FALSE, startCalls |-> 0, startErr |-> FALSE,
           ckReturns |-> 0, restartErrs |-> 0, restarts |-> 0, cancelRunning |-> FALSE]

\* SIGINT or SIGTERM cancels the context of run().
Cancel ==
    /\ exited = -1
    /\ ~ctxCancelled
    /\ ctxCancelled' = TRUE
    /\ hist' = [hist EXCEPT !.cancelInBackoff = (looppc = "backoff"),
                            !.cancelRunning = (svcState = "Running" /\ mainpc = "awaitTerminated")]
    /\ UNCHANGED <<disk, cfg, now, nextKey, ck, calls, prev, svcState, svcpc, mainpc,
                   looppc, attempt, proc, lastExit, exited, launches, rf, unitVars>>

\* run(): services.StartAndAwaitRunning starts the service goroutine.
MainStart ==
    /\ exited = -1
    /\ mainpc = "start"
    /\ mainpc' = "awaitRunning"
    /\ svcState' = "Starting"
    /\ svcpc' = "starting"
    /\ UNCHANGED <<disk, cfg, now, nextKey, ck, calls, prev, ctxCancelled, looppc,
                   attempt, proc, lastExit, exited, launches, hist, rf, unitVars>>

\* run(): AwaitRunning returns.  Running: go on to AwaitTerminated.  Any other
\* state the service has moved to, or a cancelled context: run() returns the
\* error and main exits with code 1.
MainAwaitRunning ==
    /\ exited = -1
    /\ mainpc = "awaitRunning"
    /\ \/ /\ svcState = "Running"
          /\ mainpc' = "awaitTerminated"
          /\ UNCHANGED exited
       \/ /\ \/ svcState \in {"Failed", "Stopping", "Terminated"}
             \/ ctxCancelled
          /\ mainpc' = "done"
          /\ exited' = 1
    /\ UNCHANGED <<disk, cfg, now, nextKey, ck, calls, prev, ctxCancelled, svcState,
                   svcpc, looppc, attempt, proc, lastExit, launches, hist, rf, unitVars>>

\* run() as it would be without the wait for the service to terminate.
MainAwaitTerminated_NoWait ==
    /\ exited = -1
    /\ mainpc = "awaitTerminated"
    /\ mainpc' = "done"
    /\ exited' = 0
    /\ UNCHANGED <<disk, cfg, now, nextKey, ck, calls, prev, ctxCancelled, svcState,
                   svcpc, looppc, attempt, proc, lastExit, launches, hist, rf, unitVars>>

\* run(): AwaitTerminated returns, run() returns nil and main ends with code 0.
MainAwaitTerminated ==
    /\ exited = -1
    /\ mainpc = "awaitTerminated"
    /\ svcState \in {"Terminated", "Failed"}
    /\ mainpc' = "done"
    /\ exited' = 0
    /\ UNCHANGED <<disk, cfg, now, nextKey, ck, calls, prev, ctxCancelled, svcState,
                   svcpc, looppc, attempt, proc, lastExit, launches, hist, rf, unitVars>>

\* Client.starting as it would be with the retry goroutine started before
\* the CreateKeys call.
StartingCallCreateKeys_LoopFirst ==
    /\ exited = -1
    /\ svcpc = "starting"
    /\ svcpc' = "createKeys"
    /\ looppc' = "call"
    /\ attempt' = 1
    /\ ck' = BeginCall("starting")
    /\ hist' = [hist EXCEPT !.startCalls = hist.startCalls + 1]
    /\ UNCHANGED <<disk, cfg, now, nextKey, calls, prev, ctxCancelled, svcState, mainpc,
                   proc, lastExit, exited, launches, rf, unitVars>>

\* Client.starting: s.km.CreateKeys(ctx) is called.
StartingCallCreateKeys ==
    /\ exited = -1
    /\ svcpc = "starting"
    /\ svcpc' = "createKeys"
    /\ ck' = BeginCall("starting")
    /\ hist' = [hist EXCEPT !.startCalls = hist.startCalls + 1]
    /\ UNCHANGED <<disk, cfg, now, nextKey, calls, prev, ctxCancelled, svcState, mainpc,
                   looppc, attempt, proc, lastExit, exited, launches, rf, unitVars>>

\* Client.starting: the call runs.
StartingCreateKeysStep ==
    /\ exited = -1
    /\ svcpc = "createKeys"
    /\ CreateKeys("starting")
    /\ UNCHANGED <<cfg, now, calls, prev, agentVars>>

\* Client.starting as it would be if it only logged the error of CreateKeys.
StartingCreateKeysReturn_ErrorIgnored ==
    /\ exited = -1
    /\ svcpc = "createKeys"
    /\ ck["starting"].stage = "returned"
    /\ ck' = [ck EXCEPT !["starting"] = IdleCall]
    /\ svcpc' = "flags"
    /\ hist' = [hist EXCEPT !.startErr = ck["starting"].err, !.ckReturns = hist.ckReturns + 1]
    /\ UNCHANGED <<disk, cfg, now, nextKey, calls, prev, ctxCancelled, svcState, mainpc,
                   looppc, attempt, proc, lastExit, exited, launches, rf, unitVars>>

\* Client.starting: CreateKeys has returned; an error fails the start.
StartingCreateKeysReturn ==
    /\ exited = -1
    /\ svcpc = "createKeys"
    /\ ck["starting"].stage = "returned"
    /\ ck' = [ck EXCEPT !["starting"] = IdleCall]
    /\ IF ck["starting"].err
       THEN /\ svcpc' = "done"
            /\ svcState' = "Failed"
            /\ hist' = [hist EXCEPT !.startErr = TRUE, !.ckReturns = hist.ckReturns + 1]
       ELSE /\ svcpc' = "flags"
            /\ hist' = [hist EXCEPT !.ckReturns = hist.ckReturns + 1]
            /\ UNCHANGED svcState
    /\ UNCHANGED <<disk, cfg, now, nextKey, calls, prev, ctxCancelled, mainpc, looppc,
                   attempt, proc, lastExit, exited, launches, rf, unitVars>>

\* Client.starting: SSHFlagsFromConfig; an error fails the start, otherwise
\* the retry goroutine is started and starting returns nil.
StartingFlags ==
    /\ exited = -1
    /\ svcpc = "flags"
    /\ IF ~cfg.flagsOK
       THEN /\ svcpc' = "done"
            /\ svcState' = "Failed"
            /\ hist' = [hist EXCEPT !.startErr = TRUE]
            /\ UNCHANGED <<looppc, attempt>>
       ELSE /\ svcpc' = "started"
            /\ looppc' = "call"
            /\ attempt' = 1
            /\ UNCHANGED <<svcState, hist>>
    /\ UNCHANGED <<disk, cfg, now, nextKey, ck, calls, prev, ctxCancelled, mainpc,
                   proc, lastExit, exited, launches, rf, unitVars>>

\* The service after a successful start: Running, or straight to Stopping when
\* the context was cancelled meanwhile.
ServiceStarted ==
    /\ exited = -1
    /\ svcpc = "started"
    /\ IF ctxCancelled
       THEN svcState' = "Stopping" /\ svcpc' = "stopping"
       ELSE svcState' = "Running" /\ svcpc' = "run"
    /\ UNCHANGED <<disk, cfg, now, nextKey, ck, calls, prev, ctxCancelled, mainpc,
                   looppc, attempt, proc, lastExit, exited, launches, hist, rf, unitVars>>

\* The idle service runs until its context is cancelled.
ServiceRun ==
    /\ exited = -1
    /\ svcpc = "run"
    /\ ctxCancelled
    /\ svcState' = "Stopping"
    /\ svcpc' = "stopping"
    /\ UNCHANGED <<disk, cfg, now, nextKey, ck, calls, prev, ctxCancelled, mainpc,
                   looppc, attempt, proc, lastExit, exited, launches, hist, rf, unitVars>>

\* Client.stopping returns and the service is Terminated.
ServiceStopping ==
    /\ exited = -1
    /\ svcpc = "stopping"
    /\ svcState' = "Terminated"
    /\ svcpc' = "done"
    /\ UNCHANGED <<disk, cfg, now, nextKey, ck, calls, prev, ctxCancelled, mainpc,
                   looppc, attempt, proc, lastExit, exited, launches, hist, rf, unitVars>>

\* ------------------------------------------------------- the retry driver

\* retry.Opts, in whole seconds.
Opts(maxBackoff, initialBackoff) == [MaxBackoff |-> maxBackoff, InitialBackoff |-> initialBackoff]

\* Forever's bookkeeping: its options, the backoff computed last and the one
\* before (-1: none yet); and, of the function it drives in a test, the calls
\* so far, how many returned nil, and whether the last returned an error.
NewRetry(opts) == [opts |-> opts, backoff |-> -1, prevBackoff |-> -1,
                   fnCalls |-> 0, nils |-> 0, lastErr |-> FALSE]

RECURSIVE Pow2(_)
Pow2(n) == IF n <= 0 THEN 1 ELSE 2 * Pow2(n - 1)

Min(a, b) == IF a <= b THEN a ELSE b

\* The backoff as it would be without the cap.
Backoff_NoCap(opts, n) == opts.InitialBackoff * Pow2(n - 1)

\* Forever: the backoff computed after the n-th call of f failed, before the
\* jitter is added: the initial backoff doubled with every attempt, capped.
Backoff(opts, n) == Min(opts.InitialBackoff * Pow2(n - 1), opts.MaxBackoff)

\* Forever: f() is called.
RetryCall ==
    /\ mainpc = "retry"
    /\ looppc = "call"
    /\ looppc' = "inFn"
    /\ rf' = [rf EXCEPT !.fnCalls = rf.fnCalls + 1]
    /\ UNCHANGED <<disk, cfg, now, nextKey, ck, calls, prev, ctxCancelled, svcState,
                   svcpc, mainpc, attempt, proc, lastExit, exited, launches, hist, unitVars>>

\* f returns nil or an error.
RetryFnReturn ==
    /\ mainpc = "retry"
    /\ looppc = "inFn"
    /\ looppc' = "check"
    /\ \E e \in BOOLEAN :
          rf' = [rf EXCEPT !.lastErr = e, !.nils = rf.nils + (IF e THEN 0 ELSE 1)]
    /\ UNCHANGED <<disk, cfg, now, nextKey, ck, calls, prev, ctxCancelled, svcState,
                   svcpc, mainpc, attempt, proc, lastExit, exited, launches, hist, unitVars>>

\* Forever as it would be if it returned after the first call whatever it gave.
RetryCheck_ReturnsOnError ==
    /\ mainpc = "retry"
    /\ looppc = "check"
    /\ looppc' = "returned"
    /\ UNCHANGED <<disk, cfg, now, nextKey, ck, calls, prev, ctxCancelled, svcState,
                   svcpc, mainpc, attempt, proc, lastExit, exited, launches, hist, rf, unitVars>>

\* Forever: err == nil returns; otherwise the backoff is computed and the
\* goroutine goes to sleep.
RetryCheck ==
    /\ mainpc = "retry"
    /\ looppc = "check"
    /\ IF ~rf.lastErr
       THEN /\ looppc' = "returned"
            /\ UNCHANGED rf
       ELSE /\ looppc' = "backoff"
            /\ rf' = [rf EXCEPT !.prevBackoff = rf.backoff,
                                !.backoff = Backoff(rf.opts, attempt)]
    /\ UNCHANGED <<disk, cfg, now, nextKey, ck, calls, prev, ctxCancelled, svcState,
                   svcpc, mainpc, attempt, proc, lastExit, exited, launches, hist, unitVars>>

\* Forever: the sleep (the backoff and its jitter) is over; attempt++.
RetrySleepDone ==
    /\ mainpc = "retry"
    /\ looppc = "backoff"
    /\ attempt < MaxAttempts
    /\ attempt' = attempt + 1
    /\ looppc' = "call"
    /\ UNCHANGED <<disk, cfg, now, nextKey, ck, calls, prev, ctxCancelled, svcState,
                   svcpc, mainpc, proc, lastExit, exited, launches, hist, rf, unitVars>>

\* --------------------------------------------- the supervisory retry loop

\* The closure as it would be with exec.Command, which does not look at the
\* context.
LoopLaunch_NoContext ==
    /\ exited = -1
    /\ looppc = "call"
    /\ looppc' = "running"
    /\ proc' = TRUE
    /\ launches' = launches + 1
    /\ hist' = [hist EXCEPT !.launchDisk = disk, !.launchNow = now]
    /\ UNCHANGED <<disk, cfg, now, nextKey, ck, calls, prev, ctxCancelled, svcState,
                   svcpc, mainpc, attempt, lastExit, exited, rf, unitVars>>

\* The closure as it would be with cmd.Start, which does not wait for the
\* subprocess.
LoopLaunch_NoWait ==
    /\ exited = -1
    /\ looppc = "call"
    /\ IF ctxCancelled
       THEN /\ looppc' = "afterRun"
            /\ lastExit' = -2
            /\ UNCHANGED <<proc, launches, hist>>
       ELSE /\ looppc' = "afterRun"
            /\ proc' = TRUE
            /\ launches' = launches + 1
            /\ hist' = [hist EXCEPT !.launchDisk = disk, !.launchNow = now]
            /\ lastExit' = 1
    /\ UNCHANGED <<disk, cfg, now, nextKey, ck, calls, prev, ctxCancelled, svcState,
                   svcpc, mainpc, attempt, exited, rf, unitVars>>

\* The closure: exec.CommandContext(ctx, ...) and cmd.Run().  With the
\* context already cancelled Run starts no process and returns at once.
LoopLaunch ==
    /\ exited = -1
    /\ looppc = "call"
    /\ IF ctxCancelled
       THEN /\ looppc' = "afterRun"
            /\ lastExit' = -2
            /\ UNCHANGED <<proc, launches, hist>>
       ELSE /\ looppc' = "running"
            /\ proc' = TRUE
            /\ launches' = launches + 1
            /\ hist' = [hist EXCEPT !.launchDisk = disk, !.launchNow = now]
            /\ UNCHANGED lastExit
    /\ UNCHANGED <<disk, cfg, now, nextKey, ck, calls, prev, ctxCancelled, svcState,
                   svcpc, mainpc, attempt, exited, rf, unitVars>>

\* The ssh subprocess ends on its own with some exit code; cmd.Run returns.
ProcExit ==
    /\ exited = -1
    /\ looppc = "running"
    /\ proc
    /\ \E c \in ExitCodes :
          /\ lastExit' = c
          /\ hist' = [hist EXCEPT !.fatalSeen =
                         hist.fatalSeen \/ (c = ConnectionLimitReachedCode /\ ~ctxCancelled)]
    /\ proc' = FALSE
    /\ looppc' = "afterRun"
    /\ UNCHANGED <<disk, cfg, now, nextKey, ck, calls, prev, ctxCancelled, svcState,
                   svcpc, mainpc, attempt, exited, launches, rf, unitVars>>

\* The cancelled context kills the ssh subprocess; cmd.Run returns.
ProcKilled ==
    /\ exited = -1
    /\ looppc = "running"
    /\ proc
    /\ ctxCancelled
    /\ proc' = FALSE
    /\ lastExit' = -1
    /\ looppc' = "afterRun"
    /\ UNCHANGED <<disk, cfg, now, nextKey, ck, calls, prev, ctxCancelled, svcState,
                   svcpc, mainpc, attempt, exited, launches, hist, rf, unitVars>>

\* The closure as it would be if it looked at the exit code before the
\* context.
LoopAfterRun_FatalFirst ==
    /\ exited = -1
    /\ looppc = "afterRun"
    /\ IF lastExit = ConnectionLimitReachedCode
       THEN /\ exited' = 1
            /\ looppc' = "stopped"
            /\ UNCHANGED <<ck, hist>>
       ELSE IF ctxCancelled
       THEN /\ looppc' = "stopped"
            /\ UNCHANGED <<exited, ck, hist>>
       ELSE /\ looppc' = "createKeys"
            /\ ck' = BeginCall("restart")
            /\ hist' = [hist EXCEPT !.restarts = hist.restarts + 1]
            /\ UNCHANGED exited
    /\ UNCHANGED <<disk, cfg, now, nextKey, calls, prev, ctxCancelled, svcState, svcpc,
                   mainpc, attempt, proc, lastExit, launches, rf, unitVars>>

\* The closure as it would be if every tunnel run began a new retry.Forever.
LoopAfterRun_NewForever ==
    /\ exited = -1
    /\ looppc = "afterRun"
    /\ IF ctxCancelled
       THEN /\ looppc' = "stopped"
            /\ UNCHANGED <<exited, ck, hist, attempt>>
       ELSE IF lastExit = ConnectionLimitReachedCode
       THEN /\ exited' = 1
            /\ looppc' = "stopped"
            /\ UNCHANGED <<ck, hist, attempt>>
       ELSE /\ looppc' = "createKeys"
            /\ ck' = BeginCall("restart")
            /\ hist' = [hist EXCEPT !.restarts = hist.restarts + 1]
            /\ attempt' = 1
            /\ UNCHANGED exited
    /\ UNCHANGED <<disk, cfg, now, nextKey, calls, prev, ctxCancelled, svcState, svcpc,
                   mainpc, proc, lastExit, launches, rf, unitVars>>

\* The closure as it would be without the check of the exit code.
LoopAfterRun_NoFatalCode ==
    /\ exited = -1
    /\ looppc = "afterRun"
    /\ IF ctxCancelled
       THEN /\ looppc' = "stopped"
            /\ UNCHANGED <<ck, hist>>
       ELSE /\ looppc' = "createKeys"
            /\ ck' = BeginCall("restart")
            /\ hist' = [hist EXCEPT !.restarts = hist.restarts + 1]
    /\ UNCHANGED <<disk, cfg, now, nextKey, calls, prev, ctxCancelled, svcState, svcpc,
                   mainpc, attempt, proc, lastExit, exited, launches, rf, unitVars>>

\* The closure as it would be if a subprocess that ended with code 0 ended
\* the loop.
LoopAfterRun_ZeroStops ==
    /\ exited = -1
    /\ looppc = "afterRun"
    /\ IF ctxCancelled \/ lastExit = 0
       THEN /\ looppc' = "stopped"
            /\ UNCHANGED <<exited, ck, hist>>
       ELSE IF lastExit = ConnectionLimitReachedCode
       THEN /\ exited' = 1
            /\ looppc' = "stopped"
            /\ UNCHANGED <<ck, hist>>
       ELSE /\ looppc' = "createKeys"
            /\ ck' = BeginCall("restart")
            /\ hist' = [hist EXCEPT !.restarts = hist.restarts + 1]
            /\ UNCHANGED exited
    /\ UNCHANGED <<disk, cfg, now, nextKey, calls, prev, ctxCancelled, svcState, svcpc,
                   mainpc, attempt, proc, lastExit, launches, rf, unitVars>>

\* The closure after cmd.Run: a cancelled context returns nil and ends
\* retry.Forever; exit code 254 ends the agent with os.Exit(1); anything else
\* logs and calls CreateKeys before the restart.
LoopAfterRun ==
    /\ exited = -1
    /\ looppc = "afterRun"
    /\ IF ctxCancelled
       THEN /\ looppc' = "stopped"
            /\ UNCHANGED <<exited, ck, hist>>
       ELSE IF lastExit = ConnectionLimitReachedCode
       THEN /\ exited' = 1
            /\ looppc' = "stopped"
            /\ UNCHANGED <<ck, hist>>
       ELSE /\ looppc' = "createKeys"
            /\ ck' = BeginCall("restart")
            /\ hist' = [hist EXCEPT !.restarts = hist.restarts + 1]
            /\ UNCHANGED exited
    /\ UNCHANGED <<disk, cfg, now, nextKey, calls, prev, ctxCancelled, svcState, svcpc,
                   mainpc, attempt, proc, lastExit, launches, rf, unitVars>>

\* The closure: the CreateKeys call before a restart runs.
LoopCreateKeysStep ==
    /\ exited = -1
    /\ looppc = "createKeys"
    /\ CreateKeys("restart")
    /\ UNCHANGED <<cfg, now, calls, prev, agentVars>>

\* The closure: CreateKeys has returned; its error is logged only, and the
\* closure returns an error, so retry.Forever goes to sleep.
LoopCreateKeysReturn ==
    /\ exited = -1
    /\ looppc = "createKeys"
    /\ ck["restart"].stage = "returned"
    /\ ck' = [ck EXCEPT !["restart"] = IdleCall]
    /\ looppc' = "backoff"
    /\ rf' = [rf EXCEPT !.prevBackoff = rf.backoff, !.backoff = Backoff(rf.opts, attempt)]
    /\ hist' = [hist EXCEPT !.ckReturns = hist.ckReturns + 1,
                            !.restartErrs = hist.restartErrs + (IF ck["restart"].err THEN 1 ELSE 0)]
    /\ UNCHANGED <<disk, cfg, now, nextKey, calls, prev, ctxCancelled, svcState, svcpc,
                   mainpc, attempt, proc, lastExit, exited, launches, unitVars>>

\* retry.Forever: the backoff sleep is over; the next attempt calls the closure.
LoopBackoffDone ==
    /\ exited = -1
    /\ looppc = "backoff"
    /\ ctxCancelled \/ launches < MaxLaunches
    /\ attempt' = attempt + 1
    /\ looppc' = "call"
    /\ UNCHANGED <<disk, cfg, now, nextKey, ck, calls, prev, ctxCancelled, svcState,
                   svcpc, mainpc, proc, lastExit, exited, launches, hist, rf, unitVars>>

\* ------------------------------------------------------ the signing client
\* One SignSSHKey call of a client built by NewClient: the HTTP attempts the
\* retrying transport makes, what call() returns, and the decoding of the body.

\* What one HTTP attempt yields: 0 for a network error (no response), or the
\* status code of the response.
Outcomes == {0, 200, 400, 401, 429, 500, 501}

\* RetryMax of the client retryablehttp.NewClient() returns.
DefaultRetryMax == 4

\* Config.RetryMax as the callers set it; 0 is the value of a Config that
\* never sets it.
RetryMaxValues == 0..MaxRetryMax

\* NewClient as it would be if it copied Config.RetryMax unconditionally.
NewClientRetryMax_Copied(retryMax) == retryMax

\* NewClient: RetryMax of the HTTP client it builds. A Config.RetryMax of 0
\* leaves the default of retryablehttp.NewClient() in place.
NewClientRetryMax(retryMax) ==
    IF retryMax # 0 THEN retryMax ELSE DefaultRetryMax

\* rc.CheckRetry = retryablehttp.ErrorPropagatedRetryPolicy: whether an attempt
\* that ended with outcome o is to be retried. A network error, 429 and the
\* 5xx codes other than 501 are; every other response is returned as it is.
CheckRetry(o) ==
    \/ o = 0
    \/ o = 429
    \/ (o >= 500 /\ o # 501)

NoResponse == [Certificate |-> "none", KnownHosts |-> "none"]

IdleSign == [pc |-> "idle", retryMax |-> 0, tries |-> 0, last |-> -1, retried |-> {},
             callErr |-> "none", err |-> "none", sr |-> NoResponse, unknown |-> FALSE,
             pems |-> 0, payload |-> "none", kh |-> "none"]

\* The known_hosts fields the service sends.
KnownHostsFields == {"", "h1", "h2"}

\* The transport sends the request once more.
HttpAttempt ==
    /\ sc.pc = "send"
    /\ \E o \in Outcomes :
         sc' = [sc EXCEPT !.pc = "check", !.tries = sc.tries + 1, !.last = o]
    /\ UNCHANGED <<disk, cfg, now, nextKey, ck, calls, prev, runVars, mf, rnd>>

\* The loop of the retrying transport after an attempt: it stops when the
\* policy says so or when no retry remains, and sends again otherwise.
HttpCheckRetry ==
    /\ sc.pc = "check"
    /\ IF CheckRetry(sc.last) /\ NewClientRetryMax(sc.retryMax) - (sc.tries - 1) > 0
         THEN sc' = [sc EXCEPT !.pc = "send", !.retried = sc.retried \cup {sc.last}]
         ELSE sc' = [sc EXCEPT !.pc = "call"]
    /\ UNCHANGED <<disk, cfg, now, nextKey, ck, calls, prev, runVars, mf, rnd>>

\* call(): the error it returns for the outcome the transport ended with.
\* The transport gives up with an error after a network error or a retried
\* status; a response outside 2xx is an error, ErrInvalidCredentials for 401.
CallError(o) ==
    IF o = 0 \/ CheckRetry(o) THEN "giving up"
    ELSE IF o = 401 THEN "ErrInvalidCredentials"
    ELSE IF o < 200 \/ o >= 300 THEN "status"
    ELSE "nil"

ClientCallReturn ==
    /\ sc.pc = "call"
    /\ sc' = [sc EXCEPT !.pc = "decode", !.callErr = CallError(sc.last)]
    /\ UNCHANGED <<disk, cfg, now, nextKey, ck, calls, prev, runVars, mf, rnd>>

\* SignSSHKey as it would be if it handed out a response along with an error.
SignSSHKeyReturn_ResponseWithError ==
    /\ sc.pc = "decode"
    /\ \E r \in Replies, kh \in KnownHostsFields :
         /\ r.ok = (sc.callErr = "nil")
         /\ (~r.ok => (~r.unknown /\ r.pems = 0 /\ r.payload = "junk" /\ kh = ""))
         /\ LET e == SignSSHKey(r) IN
            sc' = [sc EXCEPT !.pc = "done",
                             !.err = IF e = "call" THEN sc.callErr ELSE e,
                             !.sr = [Certificate |-> r.payload, KnownHosts |-> kh],
                             !.unknown = r.unknown, !.pems = r.pems,
                             !.payload = r.payload, !.kh = kh]
    /\ UNCHANGED <<disk, cfg, now, nextKey, ck, calls, prev, runVars, mf, rnd>>

\* SignSSHKey after call() returned: the error of call() is returned as it
\* is, with no response; otherwise the body is decoded, and the response is
\* returned only when decoding succeeded.
SignSSHKeyReturn ==
    /\ sc.pc = "decode"
    /\ \E r \in Replies, kh \in KnownHostsFields :
         /\ r.ok = (sc.callErr = "nil")
         /\ (~r.ok => (~r.unknown /\ r.pems = 0 /\ r.payload = "junk" /\ kh = ""))
         /\ LET e == SignSSHKey(r) IN
            sc' = [sc EXCEPT !.pc = "done",
                             !.err = IF e = "call" THEN sc.callErr ELSE e,
                             !.sr = IF e = "nil"
                                    THEN [Certificate |-> r.payload, KnownHosts |-> kh]
                                    ELSE NoResponse,
                             !.unknown = r.unknown, !.pems = r.pems,
                             !.payload = r.payload, !.kh = kh]
    /\ UNCHANGED <<disk, cfg, now, nextKey, ck, calls, prev, runVars, mf, rnd>>

\* ------------------------------------------------------- main before run()
\* The log levels given on the command line.
LogLevels == {"error", "warn", "info", "debug", "unknown", "", "DEBUG"}

\* logLevelToSSHLogLevel as it would be if its default case returned 0, nil.
logLevelToSSHLogLevel_DefaultZero(level) ==
    IF level \in {"error", "warn", "info"} THEN [level |-> 0, err |-> FALSE]
    ELSE IF level = "debug" THEN [level |-> 3, err |-> FALSE]
    ELSE [level |-> 0, err |-> FALSE]

\* logLevelToSSHLogLevel: the ssh log level and whether an error is returned.
logLevelToSSHLogLevel(level) ==
    IF level \in {"error", "warn", "info"} THEN [level |-> 0, err |-> FALSE]
    ELSE IF level = "debug" THEN [level |-> 3, err |-> FALSE]
    ELSE [level |-> -1, err |-> TRUE]

IdleMain == [pc |-> "off", level |-> "info", parseOK |-> TRUE, printHelp |-> FALSE,
             legacy |-> FALSE, urlsOK |-> TRUE, sshLogLevel |-> -2, levelErr |-> FALSE,
             usage |-> FALSE, legacyRan |-> FALSE, exit |-> -1]

\* The command lines main is started with.
MainInputs ==
    {[IdleMain EXCEPT !.pc = "parseFlags", !.level = l, !.parseOK = p, !.printHelp = h,
                      !.legacy = g, !.urlsOK = u] :
        l \in LogLevels, p \in BOOLEAN, h \in BOOLEAN, g \in BOOLEAN, u \in BOOLEAN}

\* main: parseFlags; an error ends the process with code 1.
MainParseFlags ==
    /\ mf.pc = "parseFlags"
    /\ IF mf.parseOK
         THEN mf' = [mf EXCEPT !.pc = "logLevel"]
         ELSE mf' = [mf EXCEPT !.pc = "exited", !.exit = 1]
    /\ UNCHANGED <<disk, cfg, now, nextKey, ck, calls, prev, runVars, sc, rnd>>

\* main: the log level is converted; an error prints the usage and ends the
\* process with code 1.
MainLogLevel ==
    /\ mf.pc = "logLevel"
    /\ LET r == logLevelToSSHLogLevel(mf.level) IN
         IF r.err
         THEN mf' = [mf EXCEPT !.pc = "exited", !.exit = 1, !.usage = TRUE,
                               !.sshLogLevel = r.level, !.levelErr = TRUE]
         ELSE mf' = [mf EXCEPT !.pc = "printHelp", !.sshLogLevel = r.level]
    /\ UNCHANGED <<disk, cfg, now, nextKey, ck, calls, prev, runVars, sc, rnd>>

\* main: -h prints the usage and returns.
MainPrintHelp ==
    /\ mf.pc = "printHelp"
    /\ IF mf.printHelp
         THEN mf' = [mf EXCEPT !.pc = "exited", !.exit = 0, !.usage = TRUE]
         ELSE mf' = [mf EXCEPT !.pc = "legacy"]
    /\ UNCHANGED <<disk, cfg, now, nextKey, ck, calls, prev, runVars, sc, rnd>>

\* main: in legacy mode ssh is run directly and main ends with its outcome;
\* otherwise the URLs are built, an error ending the process with code 1,
\* and run() is entered.
MainRun ==
    /\ mf.pc = "legacy"
    /\ IF mf.legacy
         THEN /\ \E e \in {0, 1} :
                   mf' = [mf EXCEPT !.pc = "exited", !.exit = e, !.legacyRan = TRUE]
              /\ UNCHANGED mainpc
         ELSE IF ~mf.urlsOK
         THEN /\ mf' = [mf EXCEPT !.pc = "exited", !.exit = 1]
              /\ UNCHANGED mainpc
         ELSE /\ mf' = [mf EXCEPT !.pc = "run"]
              /\ mainpc' = "start"
    /\ UNCHANGED <<disk, cfg, now, nextKey, ck, calls, prev, ctxCancelled, svcState,
                   svcpc, looppc, attempt, proc, lastExit, exited, launches, hist, rf,
                   sc, rnd>>

\* ------------------------------------------------------------ random.Range
\* Range as it would be if it also refused min = max.
RangePanics_OnEqual(min, max) == min >= max

\* Range: the check it starts with.
RangePanics(min, max) == min > max

\* Range: the numbers it generates, those between min and max inclusive.
RangeValues(min, max) == min..max

IdleRange == [pc |-> "idle", min |-> 0, max |-> 0, v |-> 0]

\* One call Range(min, max): it panics, or returns one of its values.
RangeCall ==
    /\ rnd.pc = "call"
    /\ IF RangePanics(rnd.min, rnd.max)
         THEN rnd' = [rnd EXCEPT !.pc = "panic"]
         ELSE \E v \in RangeValues(rnd.min, rnd.max) :
                 rnd' = [rnd EXCEPT !.pc = "returned", !.v = v]
    /\ UNCHANGED <<disk, cfg, now, nextKey, ck, calls, prev, runVars, sc, mf>>

\* ---------------------------------------------------------- specifications

ValidDisk(k, a, b, h) ==
    [priv |-> PrivKey(k), pub |-> PubKey(k), cert |-> Cert(k, a, b), kh |-> Hosts,
     hash |-> HashText(h)]

\* Validity windows of certificates found on disk at the start (time 1):
\* inside, expired, not yet valid, ending now, starting now.
Windows == {<<0, 3>>, <<0, 0>>, <<2, 3>>, <<0, 1>>, <<1, 3>>}

\* Key directories a test sets up: every file missing, unparsable or valid.
TestDisks ==
    [priv : {NoFile, Garbage, PrivKey(0)},
     pub : {NoFile, Garbage, PubKey(0)},
     cert : {NoFile, Garbage, PubKey(0), Cert(1, 0, 3)} \cup {Cert(0, w[1], w[2]) : w \in Windows},
     kh : {NoFile, Garbage, Hosts},
     hash : {NoFile} \cup {HashText(100 + a) : a \in 1..NumArgs}]

\* Key directories the agent is started on.
AgentDisks ==
    {EmptyDisk,
     ValidDisk(0, 0, 2, 101),
     ValidDisk(0, 0, 2, 102),
     ValidDisk(0, 0, 0, 101),
     [ValidDisk(0, 0, 2, 101) EXCEPT !.kh = Garbage],
     [ValidDisk(0, 0, 2, 101) EXCEPT !.priv = Garbage]}

InitCore ==
    /\ now = 1
    /\ nextKey = 2
    /\ ck = [t \in Callers |-> IdleCall]
    /\ calls = 0
    /\ prev = NoPrev
    /\ ctxCancelled = FALSE
    /\ svcState = "New"
    /\ svcpc = "new"
    /\ looppc = "off"
    /\ attempt = 0
    /\ proc = FALSE
    /\ lastExit = -2
    /\ exited = -1
    /\ launches = 0
    /\ hist = NoHist

InitCommon ==
    /\ InitCore
    /\ sc = IdleSign
    /\ mf = IdleMain
    /\ rnd = IdleRange

\* The options Client.starting passes to retry.Forever.
AgentRetryOpts == Opts(16, 1)

\* The agent process: main has parsed its flags and calls run().
Init ==
    /\ InitCommon
    /\ disk \in AgentDisks
    /\ cfg \in [force : BOOLEAN, args : {1}, flagsOK : BOOLEAN]
    /\ mainpc = "start"
    /\ rf = NewRetry(AgentRetryOpts)

Next ==
    \/ Tick
    \/ Cancel
    \/ MainStart
    \/ MainAwaitRunning
    \/ MainAwaitTerminated
    \/ StartingCallCreateKeys
    \/ StartingCreateKeysStep
    \/ StartingCreateKeysReturn
    \/ StartingFlags
    \/ ServiceStarted
    \/ ServiceRun
    \/ ServiceStopping
    \/ LoopLaunch
    \/ ProcExit
    \/ ProcKilled
    \/ LoopAfterRun
    \/ LoopCreateKeysStep
    \/ LoopCreateKeysReturn
    \/ LoopBackoffDone

Spec == Init /\ [][Next]_vars

\* The agent under the scheduling the Go runtime gives: every goroutine that
\* can take its next step takes it, a signing call returns, a sleep ends and a
\* killed subprocess is reaped.  Nothing makes a signal arrive, time pass or
\* the subprocess end on its own.
Fairness ==
    /\ WF_vars(MainStart)
    /\ WF_vars(MainAwaitRunning)
    /\ WF_vars(MainAwaitTerminated)
    /\ WF_vars(StartingCallCreateKeys)
    /\ WF_vars(StartingCreateKeysStep)
    /\ WF_vars(StartingCreateKeysReturn)
    /\ WF_vars(StartingFlags)
    /\ WF_vars(ServiceStarted)
    /\ WF_vars(ServiceRun)
    /\ WF_vars(ServiceStopping)
    /\ WF_vars(LoopLaunch)
    /\ WF_vars(ProcKilled)
    /\ WF_vars(LoopAfterRun)
    /\ WF_vars(LoopCreateKeysStep)
    /\ WF_vars(LoopCreateKeysReturn)
    /\ WF_vars(LoopBackoffDone)

FairSpec == Spec /\ Fairness

\* The key manager alone, driven as its tests drive it.
InitKM ==
    /\ InitCommon
    /\ disk \in TestDisks
    /\ cfg \in [force : BOOLEAN, args : {1}, flagsOK : {TRUE}]
    /\ mainpc = "test"
    /\ rf = NewRetry(AgentRetryOpts)

NextKM ==
    \/ Tick
    \/ TestCall
    \/ TestStep
    \/ TestReturn
    \/ TestSetArgs

SpecKM == InitKM /\ [][NextKM]_vars

\* Options retry.Forever is called with: those of its test, those of the
\* agent, and others around them.
RetryOpts == {Opts(m, i) : m \in {1, 4, 16, 100}, i \in {0, 1, 2}}

\* retry.Forever alone, entered with some options and a function that fails
\* or succeeds as it likes: attempt := 1.
InitRetry ==
    /\ disk = EmptyDisk
    /\ cfg = [force |-> FALSE, args |-> 1, flagsOK |-> TRUE]
    /\ now = 1
    /\ nextKey = 2
    /\ ck = [t \in Callers |-> IdleCall]
    /\ calls = 0
    /\ prev = NoPrev
    /\ ctxCancelled = FALSE
    /\ svcState = "New"
    /\ svcpc = "new"
    /\ looppc = "call"
    /\ attempt = 1
    /\ proc = FALSE
    /\ lastExit = -2
    /\ exited = -1
    /\ launches = 0
    /\ hist = NoHist
    /\ mainpc = "retry"
    /\ \E o \in RetryOpts : rf = NewRetry(o)
    /\ sc = IdleSign
    /\ mf = IdleMain
    /\ rnd = IdleRange

NextRetry ==
    \/ RetryCall
    \/ RetryFnReturn
    \/ RetryCheck
    \/ RetrySleepDone

\* Forever runs on; nothing makes f return.
FairnessRetry ==
    /\ WF_vars(RetryCall)
    /\ WF_vars(RetryCheck)
    /\ WF_vars(RetrySleepDone)

SpecRetry == InitRetry /\ [][NextRetry]_vars /\ FairnessRetry

\* The key manager on key directories that differ in the hash file only:
\* missing, unreadable, holding the hash of the arguments or another one.
HashDisks ==
    {[d EXCEPT !.hash = h] :
        d \in {ValidDisk(0, 0, CertTTL + 1, 0), ValidDisk(0, 0, 0, 0)},
        h \in {NoFile, Unreadable} \cup {HashText(ArgumentsHash([args |-> a])) : a \in 1..NumArgs}}

InitHash ==
    /\ InitCommon
    /\ disk \in HashDisks
    /\ cfg \in [force : BOOLEAN, args : {1}, flagsOK : {TRUE}]
    /\ mainpc = "test"
    /\ rf = NewRetry(AgentRetryOpts)

NextHash ==
    \/ Tick
    \/ TestCall
    \/ TestStep
    \/ TestReturn
    \/ TestSetArgs

SpecHash == InitHash /\ [][NextHash]_vars

\* The signing client alone: one SignSSHKey call.
InitSign ==
    /\ InitCore
    /\ disk = EmptyDisk
    /\ cfg = [force |-> FALSE, args |-> 1, flagsOK |-> TRUE]
    /\ mainpc = "off"
    /\ rf = NewRetry(AgentRetryOpts)
    /\ \E m \in RetryMaxValues : sc = [IdleSign EXCEPT !.pc = "send", !.retryMax = m]
    /\ mf = IdleMain
    /\ rnd = IdleRange

NextSign ==
    \/ HttpAttempt
    \/ HttpCheckRetry
    \/ ClientCallReturn
    \/ SignSSHKeyReturn

SpecSign == InitSign /\ [][NextSign]_vars

\* The process from main on: the flags are handled, then run() as in Spec.
MainDisks == {EmptyDisk, ValidDisk(0, 0, CertTTL, ArgumentsHash([args |-> 1]))}

InitMain ==
    /\ InitCore
    /\ disk \in MainDisks
    /\ cfg \in [force : {FALSE}, args : {1}, flagsOK : BOOLEAN]
    /\ mainpc = "off"
    /\ rf = NewRetry(AgentRetryOpts)
    /\ sc = IdleSign
    /\ mf \in MainInputs
    /\ rnd = IdleRange

NextMain ==
    \/ MainParseFlags
    \/ MainLogLevel
    \/ MainPrintHelp
    \/ MainRun
    \/ Tick
    \/ Cancel
    \/ MainStart
    \/ MainAwaitRunning
    \/ MainAwaitTerminated
    \/ StartingCallCreateKeys
    \/ StartingCreateKeysStep
    \/ StartingCreateKeysReturn
    \/ StartingFlags
    \/ ServiceStarted
    \/ ServiceRun
    \/ ServiceStopping
    \/ LoopLaunch
    \/ ProcExit
    \/ ProcKilled
    \/ LoopAfterRun
    \/ LoopCreateKeysStep
    \/ LoopCreateKeysReturn
    \/ LoopBackoffDone

SpecMain == InitMain /\ [][NextMain]_vars

\* random.Range alone: one call with its arguments.
InitRange ==
    /\ InitCore
    /\ disk = EmptyDisk
    /\ cfg = [force |-> FALSE, args |-> 1, flagsOK |-> TRUE]
    /\ mainpc = "off"
    /\ rf = NewRetry(AgentRetryOpts)
    /\ sc = IdleSign
    /\ mf = IdleMain
    /\ \E min \in -RangeSpan..RangeSpan, max \in -RangeSpan..RangeSpan :
         rnd = [IdleRange EXCEPT !.pc = "call", !.min = min, !.max = max]

NextRange == RangeCall

SpecRange == InitRange /\ [][NextRange]_vars

\* ------------------------------------------------------------- properties

\* What the specification calls valid, file by file.
KeyPairValid(d) == d.priv.st = "pem" /\ d.pub.st = "authkey"
KnownHostsValid(d) == d.kh.st = "hosts"
CertValid(d, t) == d.cert.st = "cert" /\ d.cert.va <= t /\ t < d.cert.vb
FingerprintValid(d, c) == d.hash = HashText(ArgumentsHash(c))
AllValid(d, t, c) ==
    KeyPairValid(d) /\ CertValid(d, t) /\ KnownHostsValid(d) /\ FingerprintValid(d, c)

\* The call has decided whether to ask for a certificate.
PastCertDecision(c) ==
    \/ c.stage \in {"signing", "writeHash"}
    \/ c.stage = "returned" /\ (c.signs > 0 \/ ~c.err)

SameIdentityFiles(d, e) ==
    d.priv = e.priv /\ d.pub = e.pub /\ d.cert = e.cert /\ d.kh = e.kh

\* C1: a CreateKeys call on a fully valid key directory, with the
\* configuration unchanged and overwrite not forced, sends no signing request,
\* leaves the private key, public key, certificate and known-hosts as they
\* were and returns nil; and after two calls in a row that started on an empty
\* directory the private key is the one the first call left.
C1_Idempotent ==
    LET c == ck["test"] IN
    /\ (c.stage # "idle" /\ AllValid(c.d0, c.t0, cfg) /\ ~cfg.force)
          => /\ c.signs = 0
             /\ SameIdentityFiles(disk, c.d0)
             /\ ~c.genKeys
             /\ c.stage = "returned" => ~c.err
    /\ (c.stage = "returned" /\ calls = 2 /\ prev.valid /\ prev.d0 = EmptyDisk
        /\ ~prev.err /\ ~cfg.force)
          => disk.priv = prev.disk.priv /\ disk.priv.st = "pem"

\* C1 happens: the second of two calls from an empty directory has returned,
\* and it started on a fully valid directory.
C1_Witness ==
    LET c == ck["test"] IN
    /\ c.stage = "returned" /\ calls = 2 /\ prev.valid /\ prev.d0 = EmptyDisk
    /\ ~prev.err /\ ~cfg.force /\ AllValid(c.d0, c.t0, cfg)
    /\ c.signs = 0 /\ disk.priv = prev.disk.priv

\* C5: a CreateKeys call that finds a hash file whose content differs from the
\* hash of the current arguments sends a signing request, also when key pair,
\* certificate and known-hosts are valid.
C5_FingerprintSensitivity ==
    LET c == ck["test"] IN
    (PastCertDecision(c) /\ c.d0.hash.st = "text" /\ ~FingerprintValid(c.d0, cfg))
       => c.signs >= 1

\* C5 happens: the first call succeeded, an argument changed, and the second
\* call, on valid keys, certificate and known-hosts, has signed again.
C5_Witness ==
    LET c == ck["test"] IN
    /\ c.stage = "returned" /\ ~c.err /\ calls = 2 /\ prev.valid /\ ~prev.err
    /\ ~cfg.force
    /\ KeyPairValid(c.d0) /\ CertValid(c.d0, c.t0) /\ KnownHostsValid(c.d0)
    /\ c.d0.hash.st = "text" /\ ~FingerprintValid(c.d0, cfg)
    /\ c.d0 = prev.disk
    /\ c.signs = 1

\* A fully valid directory in which exactly file f was replaced by bytes that
\* do not parse.
OneCorrupt(d, t, c, f) ==
    /\ d[f] = Garbage
    /\ f # "priv" => d.priv.st = "pem"
    /\ f # "pub" => d.pub.st = "authkey"
    /\ f # "cert" => CertValid(d, t)
    /\ f # "kh" => KnownHostsValid(d)
    /\ FingerprintValid(d, c)

\* C6: from a fully valid directory with one of private key, public key,
\* certificate, known-hosts made unparsable, a CreateKeys call sends exactly
\* one signing request, and when it returns nil the key pair, the certificate
\* and the known-hosts on disk are valid.
C6_StructuralCorruption ==
    LET c == ck["test"] IN
    \A f \in {"priv", "pub", "cert", "kh"} :
       OneCorrupt(c.d0, c.t0, cfg, f) =>
          /\ PastCertDecision(c) => c.signs = 1
          /\ c.stage = "returned" => c.signs = 1
          /\ (c.stage = "returned" /\ ~c.err) =>
                KeyPairValid(disk) /\ CertValid(disk, now) /\ KnownHostsValid(disk)

\* C6 happens: a call that started with only the known-hosts file corrupted
\* has returned nil.
C6_Witness ==
    LET c == ck["test"] IN
    /\ c.stage = "returned" /\ ~c.err /\ OneCorrupt(c.d0, c.t0, cfg, "kh")
    /\ c.signs = 1 /\ KnownHostsValid(disk)

\* C7: with valid keys, matching hash file, valid known-hosts and overwrite
\* not forced, a CreateKeys call sends a signing request when the
\* certificate's validBefore is in the past, sends one when its validAfter is
\* in the future, and sends none when the time is strictly inside the window.
C7_TimeWindow ==
    LET c == ck["test"] IN
    (PastCertDecision(c) /\ KeyPairValid(c.d0) /\ ~cfg.force
     /\ FingerprintValid(c.d0, cfg) /\ KnownHostsValid(c.d0) /\ c.d0.cert.st = "cert")
       => /\ c.d0.cert.vb < c.t0 => c.signs >= 1
          /\ c.d0.cert.va > c.t0 => c.signs >= 1
          /\ (c.d0.cert.va < c.t0 /\ c.t0 < c.d0.cert.vb) => c.signs = 0

\* C7 happens: a call that found a certificate not yet valid has signed.
C7_Witness ==
    LET c == ck["test"] IN
    /\ c.stage = "returned" /\ ~c.err /\ KeyPairValid(c.d0) /\ ~cfg.force
    /\ FingerprintValid(c.d0, cfg) /\ KnownHostsValid(c.d0)
    /\ c.d0.cert.st = "cert" /\ c.d0.cert.va > c.t0 /\ c.d0.cert.vb > c.d0.cert.va
    /\ c.signs = 1

\* The identity on disk d at time t is consistent under configuration c: the
\* key pair is valid, the certificate was issued for the public key on disk,
\* the time is inside its window and the hash file is that of c.
IdentityConsistent(d, t, c) ==
    /\ KeyPairValid(d)
    /\ d.priv.key = d.pub.key
    /\ d.cert.st = "cert"
    /\ d.cert.key = d.pub.key
    /\ d.cert.va <= t /\ t <= d.cert.vb
    /\ FingerprintValid(d, c)

\* C2: every launch of the ssh subprocess finds a consistent identity on disk.
C2_LaunchOnlyConsistent ==
    launches > 0 => IdentityConsistent(hist.launchDisk, hist.launchNow, cfg)

\* The steps of C3: once the subprocess has ended with exit code 254 under a
\* context that was not cancelled, the loop calls CreateKeys no more, sleeps no
\* more and launches no more; and the closure that sees the code with the
\* context still not cancelled ends the agent process at once.
C3_NoRetry ==
    [][/\ hist'.fatalSeen =>
             /\ looppc' \in {"afterRun", "stopped"}
             /\ launches' = launches
             /\ proc' = FALSE
             /\ \A t \in Callers : ck'[t].stage = "idle"
       /\ (looppc = "afterRun" /\ looppc' # looppc /\ ~ctxCancelled
           /\ lastExit = ConnectionLimitReachedCode)
             => exited' = 1]_vars

\* C3: when the ssh subprocess ends with exit code 254 and the context is not
\* cancelled, the agent process ends: the closure that sees the code ends it at
\* once with os.Exit(1), no CreateKeys call, backoff sleep or launch follows
\* that exit, and the process does end.
C3_FatalExit == C3_NoRetry /\ (hist.fatalSeen ~> exited # -1)

\* C3 happens: exit code 254 has ended the agent.
C3_Witness ==
    /\ hist.fatalSeen /\ ~ctxCancelled /\ exited = 1 /\ looppc = "stopped"
    /\ lastExit = ConnectionLimitReachedCode /\ mainpc # "done"

\* The steps of C4: after a cancellation that arrives while the loop sleeps in
\* its backoff no subprocess is started, and the next call of the closure ends
\* the loop.
C4_NoLaunch ==
    [][/\ hist.cancelInBackoff => launches' = launches /\ proc' = FALSE
       /\ hist'.cancelInBackoff => looppc' \in {"backoff", "call", "afterRun", "stopped"}
       /\ (hist.cancelInBackoff /\ looppc = "afterRun" /\ looppc' # looppc)
             => looppc' = "stopped" /\ exited' = exited]_vars

\* C4: when the context is cancelled while the loop sleeps in its backoff, no
\* ssh subprocess is started after the cancellation, and the loop stops (or the
\* process ends before it has).
C4_CancelInBackoff ==
    C4_NoLaunch /\ (hist.cancelInBackoff ~> (looppc = "stopped" \/ exited # -1))

\* C4 happens: the loop, cancelled in its backoff, has stopped.
C4_Witness ==
    hist.cancelInBackoff /\ looppc = "stopped" /\ launches >= 1 /\ exited = -1

\* The states of C8: the start step calls CreateKeys once and waits for it;
\* when the call or the derivation of the ssh flags fails, the service is
\* Failed, the loop was never started, no subprocess was launched, and the
\* process can only end with code 1.
C8_StartOnce ==
    /\ hist.startCalls <= 1
    /\ svcpc \notin {"new", "starting"} => hist.startCalls = 1
    /\ ck["starting"].stage # "idle" => svcpc = "createKeys" /\ svcState = "Starting"
    /\ hist.startErr =>
          /\ svcState = "Failed"
          /\ looppc = "off"
          /\ launches = 0
          /\ ~proc
          /\ exited \in {-1, 1}
          /\ mainpc = "done" => exited = 1

\* C8: the start step calls CreateKeys exactly once and waits for it; when it
\* or the derivation of the ssh flags returns an error the start fails, the
\* retry loop is never started, no ssh subprocess is ever launched, and the
\* process ends with code 1.
C8_FailFastStartup == []C8_StartOnce /\ (hist.startErr ~> exited = 1)

\* C8 happens: the start failed on CreateKeys and the process has ended.
C8_Witness ==
    hist.startErr /\ hist.ckReturns = 1 /\ exited = 1 /\ ~ctxCancelled /\ looppc = "off"

\* C9: a launch follows a CreateKeys call that has returned, one for every
\* launch; no subprocess is alive while a CreateKeys call is in progress; and
\* CreateKeys is not in progress for two callers at once.
C9_Ordering ==
    /\ launches <= hist.ckReturns
    /\ proc => \A t \in Callers : ck[t].stage = "idle"
    /\ ~(ck["starting"].stage # "idle" /\ ck["restart"].stage # "idle")

\* C9 happens: the second subprocess runs, after two CreateKeys calls.
C9_Witness ==
    proc /\ launches = 2 /\ hist.ckReturns = 2

\* The steps of C10: a subprocess exit with a code other than 254 under a
\* context that is not cancelled makes the closure call CreateKeys; whatever
\* that call returns, the loop goes to its backoff and from there to the next
\* launch, and the agent keeps running; the same error in the start step
\* fails the service.
C10_Steps ==
    [][/\ (looppc = "afterRun" /\ looppc' # looppc /\ ~ctxCancelled
           /\ lastExit # ConnectionLimitReachedCode)
             => /\ looppc' = "createKeys"
                /\ ck'["restart"].stage = "ensureKeys"
                /\ exited' = -1
       /\ (looppc = "createKeys" /\ looppc' # looppc)
             => /\ ck["restart"].stage = "returned"
                /\ looppc' = "backoff"
                /\ exited' = -1
       /\ (looppc = "backoff" /\ looppc' # looppc) => looppc' = "call"
       /\ (looppc = "call" /\ looppc' # looppc /\ ~ctxCancelled)
             => proc' /\ launches' = launches + 1 /\ looppc' = "running"
       /\ (svcpc = "createKeys" /\ svcpc' # svcpc /\ ck["starting"].err)
             => svcState' = "Failed" /\ looppc' = "off"]_vars

\* C10: when the ssh subprocess ends with a code other than 254 (0 included)
\* and the context is not cancelled, the loop calls CreateKeys, sleeps its
\* backoff and launches the subprocess again, unless the context is cancelled
\* or the process ends meanwhile; an error of that CreateKeys call neither
\* stops the loop nor ends the agent, while the same error in the start step
\* fails the start.
C10_RestartPath ==
    /\ C10_Steps
    /\ \A n \in 1..(MaxLaunches - 1) :
          (looppc = "afterRun" /\ launches = n /\ ~ctxCancelled
           /\ lastExit # ConnectionLimitReachedCode)
             ~> (launches = n + 1 \/ ctxCancelled \/ exited # -1)

\* C10 happens: the subprocess ended with code 0, the CreateKeys call of the
\* restart failed, and the subprocess runs again.
C10_Witness ==
    proc /\ launches = 2 /\ lastExit = 0 /\ hist.restartErrs = 1 /\ exited = -1

\* The five files hold what they held in e.
SameFiles(d, e) == SameIdentityFiles(d, e) /\ d.hash = e.hash

\* The four identity files exist.
IdentityFilesExist(d) ==
    d.priv.st # "missing" /\ d.pub.st # "missing" /\ d.cert.st # "missing"
    /\ d.kh.st # "missing"

\* The certificate on disk at a time the code's window check accepts, issued
\* for the key pair on disk, with valid known-hosts and the hash file of c.
SelfHealed(d, t, c) == IdentityConsistent(d, t, c) /\ KnownHostsValid(d)

\* C11: when a CreateKeys call failed partway (it wrote a new key pair and the
\* signing request failed), the next CreateKeys call that returns nil leaves a
\* valid key pair, a valid certificate issued for the key pair on disk, valid
\* known-hosts and the hash file of the current configuration.
C11_SelfHealing ==
    LET c == ck["test"] IN
    (c.stage = "returned" /\ ~c.err /\ calls = 2 /\ prev.valid /\ prev.err
     /\ prev.disk # prev.d0)
       => SelfHealed(disk, now, cfg)

\* C12: with ForceKeyFileOverwrite set, a CreateKeys call generates a fresh key
\* pair also when a valid pair is on disk (the one case without: os.MkdirAll
\* failed on a key directory that was not there, and the call returned its
\* error having written nothing); so after two calls in a row the private key
\* on disk is not the one the first call left.
C12_ForcedRegeneration ==
    LET c == ck["test"] IN
    /\ (cfg.force /\ c.stage \notin {"idle", "ensureKeys"} /\ ~DirMayBeMissing(c.d0))
          => /\ c.genKeys
             /\ {"priv", "pub"} \subseteq c.wrote
             /\ KeyPairValid(disk)
             /\ disk.priv # c.d0.priv /\ disk.pub # c.d0.pub
    /\ (cfg.force /\ c.stage \notin {"idle", "ensureKeys"} /\ ~c.genKeys)
          => c.stage = "returned" /\ c.err /\ c.wrote = {} /\ c.signs = 0
    /\ (cfg.force /\ c.stage = "returned" /\ calls = 2 /\ prev.valid
        /\ prev.disk.priv.st = "pem")
          => disk.priv.st = "pem" /\ disk.priv.key # prev.disk.priv.key

\* C12 happens: two calls in a row with the flag set returned nil, the first
\* on a valid key pair, and each left another private key.
C12_Witness ==
    LET c == ck["test"] IN
    /\ cfg.force /\ c.stage = "returned" /\ ~c.err /\ calls = 2 /\ prev.valid /\ ~prev.err
    /\ KeyPairValid(prev.d0) /\ prev.disk.priv # prev.d0.priv
    /\ disk.priv.st = "pem" /\ disk.priv.key # prev.disk.priv.key

\* C13 as claimed: a CreateKeys call with unchanged configuration on a fully
\* valid key directory, overwrite not forced, writes none of the five files,
\* the hash file included.
C13_ZeroWrites ==
    LET c == ck["test"] IN
    (c.stage = "returned" /\ AllValid(c.d0, c.t0, cfg) /\ ~cfg.force)
       => c.wrote = {}

\* C13: a CreateKeys call with unchanged configuration on a fully valid key
\* directory, overwrite not forced, writes neither the private key, the public
\* key, the certificate nor the known-hosts file; it writes the hash file once,
\* with the content the file had, so that all five files hold what they held.
C13_NoIdentityWrites ==
    LET c == ck["test"] IN
    (c.stage # "idle" /\ AllValid(c.d0, c.t0, cfg) /\ ~cfg.force)
       => /\ c.wrote \subseteq {"hash"}
          /\ SameFiles(disk, c.d0)
          /\ c.stage = "returned" => c.wrote = {"hash"} /\ ~c.err

\* C13 happens: such a call has returned, after a first call that built the
\* directory.
C13_Witness ==
    LET c == ck["test"] IN
    /\ c.stage = "returned" /\ AllValid(c.d0, c.t0, cfg) /\ ~cfg.force
    /\ calls = 2 /\ prev.valid /\ ~prev.err /\ prev.signs = 1
    /\ c.wrote = {"hash"} /\ SameFiles(disk, c.d0)

\* C14 as claimed: when the signing service answers with two PEM blocks, or
\* with one PEM block whose payload is a key that is not a certificate, the
\* signing call fails, the request is not sent again, and the CreateKeys call
\* has written no file, from every starting directory.
C14_MalformedNoWrites ==
    LET c == ck["test"] IN
    c.malformed => c.stage = "returned" /\ c.err /\ c.signs = 1 /\ c.wrote = {}

\* C14: when the signing service answers with two PEM blocks, or with one PEM
\* block whose payload is a key that is not a certificate, the signing call
\* fails, the request is not sent again, and the CreateKeys call returns an
\* error having written neither certificate, known-hosts nor hash file; the
\* only files it can have written are the key pair it generated before the
\* request, and it has written none when it generated none.
C14_MalformedNoCertWrites ==
    LET c == ck["test"] IN
    c.malformed =>
       /\ c.stage = "returned" /\ c.err /\ c.signs = 1
       /\ c.wrote \subseteq {"priv", "pub"}
       /\ disk.cert = c.d0.cert /\ disk.kh = c.d0.kh /\ disk.hash = c.d0.hash
       /\ ~c.genKeys => c.wrote = {} /\ SameFiles(disk, c.d0)

\* C14 happens: a call on a directory without key pair got a malformed answer.
C14_Witness ==
    LET c == ck["test"] IN
    /\ c.malformed /\ c.stage = "returned" /\ c.err /\ c.d0.priv.st = "missing"
    /\ c.genKeys /\ c.wrote = {"priv", "pub"}

\* The states of C18: a CreateKeys call sends at most one signing request, and
\* a call that has returned after a request whose answer was not persisted has
\* returned an error.
C18_Aborts ==
    \A t \in {"starting", "restart"} :
       /\ ck[t].signs <= 1
       /\ (ck[t].stage \in {"writeHash", "returned"} /\ ck[t].signs = 1
           /\ "cert" \notin ck[t].wrote)
             => ck[t].stage = "returned" /\ ck[t].err /\ "hash" \notin ck[t].wrote

\* C18: when a certificate is needed and the signing call returns an error,
\* CreateKeys returns a non-nil error: it does not report success, it does not
\* send the request again, and it does return.
C18_SigningFailureAborts ==
    /\ []C18_Aborts
    /\ \A t \in {"starting", "restart"} :
          (ck[t].stage = "signing") ~> (ck[t].stage = "returned" \/ exited # -1)

\* C18 happens: the CreateKeys call of the start step has returned the error
\* of its signing request.
C18_Witness ==
    LET c == ck["starting"] IN
    c.stage = "returned" /\ c.err /\ c.signs = 1 /\ "cert" \notin c.wrote

\* C19: while the tunnel service is Running, and when a CreateKeys call has
\* returned nil, the private key, public key, certificate and known-hosts
\* files exist and the hash file holds the hash of the current configuration.
C19_StartPostcondition ==
    /\ svcState = "Running" => IdentityFilesExist(disk) /\ FingerprintValid(disk, cfg)
    /\ \A t \in Callers :
          (ck[t].stage = "returned" /\ ~ck[t].err)
             => IdentityFilesExist(disk) /\ FingerprintValid(disk, cfg)

\* C19 happens: the service is Running on a key directory that was empty.
C19_Witness ==
    /\ svcState = "Running" /\ hist.ckReturns = 1 /\ disk.cert.key = disk.pub.key
    /\ disk.cert.va = 1 /\ IdentityFilesExist(disk) /\ FingerprintValid(disk, cfg)
    /\ disk.priv.key = 2

\* C20: the certificate check takes a certificate as valid in time exactly
\* when validAfter <= now < validBefore: with everything else valid, a
\* CreateKeys call at now = validBefore sends a signing request and one at
\* now = validAfter sends none.
C20_HalfOpenWindow ==
    LET c == ck["test"] IN
    (PastCertDecision(c) /\ KeyPairValid(c.d0) /\ ~cfg.force
     /\ FingerprintValid(c.d0, cfg) /\ KnownHostsValid(c.d0) /\ c.d0.cert.st = "cert")
       => /\ (c.d0.cert.va <= c.t0 /\ c.t0 < c.d0.cert.vb) => c.signs = 0
          /\ ~(c.d0.cert.va <= c.t0 /\ c.t0 < c.d0.cert.vb) => c.signs >= 1

\* The states of C15: Forever has returned only after a call of f that
\* returned nil, which was the last call; the calls of f are as many as the
\* attempt counter says.
C15_States ==
    /\ rf.nils <= 1
    /\ looppc = "returned" => rf.nils = 1 /\ ~rf.lastErr /\ rf.fnCalls = attempt
    /\ rf.nils = 1 => looppc \in {"check", "returned"} /\ rf.fnCalls = attempt
    /\ looppc \in {"inFn", "check", "backoff"} => rf.fnCalls = attempt
    /\ looppc = "call" => rf.fnCalls = attempt - 1

\* The steps of C15: f is not called after a call that returned nil, and after
\* a call that returned an error Forever does not return but sleeps and calls
\* f again.
C15_Steps ==
    [][/\ rf.nils = 1 => rf'.fnCalls = rf.fnCalls
       /\ (looppc = "check" /\ looppc' # looppc)
             => looppc' = (IF rf.lastErr THEN "backoff" ELSE "returned")
       /\ (looppc = "backoff" /\ looppc' # looppc) => looppc' = "call"
       /\ (looppc = "call" /\ looppc' # looppc)
             => looppc' = "inFn" /\ rf'.fnCalls = rf.fnCalls + 1]_vars

\* C15: retry.Forever returns if and only if a call of f returned nil: after a
\* call that returned an error it calls f again, after a call that returned
\* nil it returns without calling f, it does not return while every call has
\* failed, and when f succeeds on its k-th call f has been called k times.
C15_ForeverUntilNil ==
    /\ []C15_States
    /\ C15_Steps
    /\ (looppc = "check" /\ ~rf.lastErr) ~> (looppc = "returned")
    /\ \A n \in 1..(MaxAttempts - 1) :
          (looppc = "check" /\ rf.lastErr /\ rf.fnCalls = n) ~> (rf.fnCalls = n + 1)

\* C15 happens: f failed twice and succeeded on its third call, and Forever
\* has returned.
C15_Witness ==
    mainpc = "retry" /\ looppc = "returned" /\ rf.fnCalls = 3 /\ attempt = 3 /\ rf.nils = 1

\* C16: the backoff Forever computes after a failed call is the initial
\* backoff times a power of two, capped: it is double the backoff before it or
\* it is MaxBackoff, it is not below the one before it, it is at most
\* MaxBackoff, and it is 0 for every attempt when InitialBackoff is 0.
C16_BackoffBound ==
    (mainpc = "retry" /\ rf.backoff # -1) =>
       /\ rf.backoff <= rf.opts.MaxBackoff
       /\ rf.backoff >= 0
       /\ \E k \in 0..attempt :
             rf.backoff = Min(rf.opts.InitialBackoff * Pow2(k), rf.opts.MaxBackoff)
       /\ rf.opts.InitialBackoff = 0 => rf.backoff = 0
       /\ rf.prevBackoff # -1 =>
             /\ rf.backoff >= rf.prevBackoff
             /\ rf.backoff = 2 * rf.prevBackoff \/ rf.backoff = rf.opts.MaxBackoff

\* C16 happens: the backoff has grown and has met the cap.
C16_Witness ==
    /\ mainpc = "retry" /\ looppc = "backoff" /\ rf.opts.InitialBackoff = 1
    /\ rf.backoff = rf.opts.MaxBackoff /\ rf.prevBackoff = 4 /\ rf.backoff = 4
    /\ rf.opts.InitialBackoff * Pow2(attempt - 1) > rf.opts.MaxBackoff

\* C17: when SIGINT or SIGTERM cancels the context while the service is
\* Running and run() waits in AwaitTerminated, the agent process ends with
\* code 0 only after the running tunnel subprocess has been terminated and the
\* service has reached Terminated (the retry loop, a goroutine of the process,
\* has stopped by then at the latest), and no subprocess is left alive.
C17_CleanShutdown ==
    (hist.cancelRunning /\ exited # -1)
       => exited = 0 /\ ~proc /\ svcState = "Terminated"

C22_Decoding ==
    (sc.pc = "done" /\ sc.callErr = "nil") =>
       /\ (sc.err = "nil") <=> (~sc.unknown /\ sc.pems = 1 /\ sc.payload = "cert")
       /\ sc.err # "nil" => sc.sr = NoResponse
       /\ sc.err = "nil" => (sc.sr.KnownHosts = sc.kh /\ sc.sr.Certificate = "cert")

\* C22 happens: a well-formed response has been decoded.
C22_Witness ==
    sc.pc = "done" /\ sc.callErr = "nil" /\ sc.err = "nil" /\ sc.kh = "h1"

\* C23: when the signing service reports an authentication failure,
\* SignSSHKey returns ErrInvalidCredentials and no SigningResponse, and the
\* error it returns for a network or server failure is a different one.
C23_InvalidCredentials ==
    /\ (sc.pc = "done" /\ sc.last = 401)
          => (sc.err = "ErrInvalidCredentials" /\ sc.sr = NoResponse)
    /\ (sc.pc = "done" /\ (sc.last = 0 \/ sc.last >= 500))
          => (sc.err \notin {"ErrInvalidCredentials", "nil"} /\ sc.sr = NoResponse)

\* C23 happens: the service answered 401 and SignSSHKey has returned.
C23_Witness ==
    sc.pc = "done" /\ sc.last = 401 /\ sc.tries = 1

\* C24: logLevelToSSHLogLevel maps "error", "warn" and "info" to 0 and
\* "debug" to 3 with no error, and every other string to -1 with an error;
\* an invalid log level makes main exit with code 1 before any key or tunnel
\* operation.
C24_LogLevel ==
    LET valid == mf.level \in {"error", "warn", "info", "debug"} IN
    /\ (mf.parseOK /\ mf.pc \in {"printHelp", "legacy", "run", "exited"}) =>
          /\ mf.level \in {"error", "warn", "info"} => (mf.sshLogLevel = 0 /\ ~mf.levelErr)
          /\ mf.level = "debug" => (mf.sshLogLevel = 3 /\ ~mf.levelErr)
          /\ ~valid => (mf.sshLogLevel = -1 /\ mf.levelErr)
    /\ (~valid /\ mf.pc \notin {"off", "parseFlags", "logLevel"}) =>
          /\ mf.pc = "exited" /\ mf.exit = 1
          /\ mainpc = "off" /\ calls = 0 /\ launches = 0 /\ ~proc /\ ~mf.legacyRan
          /\ disk \in MainDisks

\* C24 happens: main was started with the level "unknown" and has exited.
C24_Witness ==
    /\ mf.pc = "exited" /\ mf.level = "unknown" /\ mf.parseOK /\ mf.exit = 1 /\ mf.usage
    /\ mf.legacy /\ disk = EmptyDisk

\* C25: Range(min, max) returns, for min <= max, a value between min and max
\* inclusive (so Range(n, n) = n), and panics when min > max.
C25_Range ==
    (rnd.pc \in {"returned", "panic"}) =>
       IF rnd.min <= rnd.max
       THEN /\ rnd.pc = "returned"
            /\ rnd.min <= rnd.v /\ rnd.v <= rnd.max
            /\ rnd.min = rnd.max => rnd.v = rnd.min
       ELSE rnd.pc = "panic"

\* C25 happens: Range has returned its upper bound, above its lower bound.
C25_Witness ==
    rnd.pc = "returned" /\ rnd.min < rnd.max /\ rnd.v = rnd.max

\* C26: within a CreateKeys call the fingerprint file is written only after
\* the certificate step has returned success, the certificate newly signed or
\* reused; when key generation or the certificate step fails, CreateKeys
\* returns the error and the fingerprint file is as it was before the call.
C26_FingerprintLast ==
    LET c == ck["test"] IN
    /\ "hash" \in c.wrote
          => /\ c.stage = "returned" /\ ~c.err
             /\ c.signs = 0 \/ {"cert", "kh"} \subseteq c.wrote
    /\ (c.stage # "idle" /\ "hash" \notin c.wrote) => disk.hash = c.d0.hash
    /\ (c.stage = "returned" /\ c.err) => ("hash" \notin c.wrote /\ disk.hash = c.d0.hash)

\* C26 happens: a call that generated a key pair and asked for a certificate
\* has failed, and the stale fingerprint file is still the one it found.
C26_Witness ==
    LET c == ck["test"] IN
    /\ c.stage = "returned" /\ c.err /\ c.genKeys /\ c.signs = 1
    /\ c.d0.hash.st # "missing" /\ ArgumentsHashIsDifferent(c.d0, ArgumentsHash(cfg))
    /\ disk.hash = c.d0.hash

\* C27: in every CreateKeys call that generates a key pair a signing request
\* is issued in the same call, whatever the validity of the certificate, the
\* known-hosts file and the fingerprint file found on disk; the request is
\* decided when the pair is generated, before the certificate is looked at.
C27_NewKeyForcesCert ==
    LET c == ck["test"] IN
    c.genKeys =>
       /\ c.newCert
       /\ c.stage \in {"signing", "writeHash", "returned"} => c.signs = 1
       /\ c.signs = 1 => c.reqKey = disk.pub.key

\* C27 happens: overwrite was forced on a directory whose certificate,
\* known-hosts file and fingerprint were all valid, and the call asked for a
\* certificate over the new key.
C27_Witness ==
    LET c == ck["test"] IN
    /\ c.genKeys /\ c.signs = 1 /\ cfg.force /\ c.stage = "signing"
    /\ ~NewKeysRequired(c.d0) /\ ~NewCertRequired(c.d0, c.t0)
    /\ ~ArgumentsHashIsDifferent(c.d0, ArgumentsHash(cfg))
    /\ c.reqKey # c.d0.pub.key

\* C28: every signing request of CreateKeys comes after, in the same call,
\* the key pair was found structurally valid or was generated; when creating
\* the key directory or generating the pair fails, CreateKeys returns the
\* error without a signing request.
C28_KeyBeforeCert ==
    LET c == ck["test"] IN
    /\ c.signs >= 1 => (c.genKeys \/ ~(cfg.force \/ NewKeysRequired(c.d0)))
    /\ c.stage = "signing" => (disk.priv.st = "pem" /\ disk.pub.st \in {"authkey", "cert"})
    /\ (c.stage \notin {"idle", "ensureKeys"} /\ ~c.genKeys
        /\ (cfg.force \/ NewKeysRequired(c.d0)))
          => (c.stage = "returned" /\ c.err /\ c.signs = 0)

\* C28 happens: a call that found no usable key pair has generated one and
\* waits for the certificate over it.
C28_Witness ==
    LET c == ck["test"] IN
    /\ c.stage = "signing" /\ c.signs = 1 /\ c.genKeys /\ ~cfg.force
    /\ NewKeysRequired(c.d0) /\ c.d0.priv.st = "garbage"

C30_RetriedUntilSigned ==
    LET c == ck["test"] IN
    (c.stage = "returned" /\ c.signs >= 1) => (~c.err /\ {"cert", "kh"} \subseteq c.wrote)

\* C30, amended: when CreateKeys needs a new certificate it calls the signing
\* client once; a failed signing call makes CreateKeys return the error with
\* no further signing attempt in the same call and with the certificate and
\* the known-hosts file as they were, and the certificate and known-hosts are
\* persisted when the call succeeds.
C30_SingleSigningAttempt ==
    LET c == ck["test"] IN
    /\ c.signs <= 1
    /\ (c.stage = "returned" /\ c.signs = 1 /\ c.err)
          => /\ c.wrote \cap {"cert", "kh", "hash"} = {}
             /\ disk.cert = c.d0.cert /\ disk.kh = c.d0.kh
    /\ (c.stage \in {"writeHash", "returned"} /\ c.signs = 1 /\ ~c.err)
          => /\ {"cert", "kh"} \subseteq c.wrote
             /\ disk.cert.st = "cert" /\ disk.cert.key = c.reqKey /\ disk.kh = Hosts

\* C30 happens: a call asked for a certificate once, the request failed, and
\* the call has returned the error.
C30_Witness ==
    LET c == ck["test"] IN
    c.stage = "returned" /\ c.signs = 1 /\ c.err /\ ~c.genKeys /\ ~c.malformed

\* C31: the fingerprint file counts as matching only when it is readable and
\* its content is exactly the hash of the current configuration; a missing
\* file, an unreadable one or any other content forces a signing request in
\* that CreateKeys call (unless the call has failed on the key directory
\* before), and after a successful call the file holds the current hash.
C31_FingerprintMatch ==
    LET c == ck["test"]
        matching == c.d0.hash.st = "text" /\ c.d0.hash.key = ArgumentsHash(cfg)
    IN  /\ (c.stage \in {"signing", "writeHash", "returned"} /\ ~matching)
              => \/ c.signs = 1
                 \/ c.stage = "returned" /\ c.err /\ ~c.genKeys /\ DirMayBeMissing(c.d0)
        /\ (c.stage \in {"writeHash", "returned"} /\ ~c.err /\ c.signs = 0) => matching
        /\ (c.stage = "returned" /\ ~c.err)
              => (disk.hash.st = "text" /\ disk.hash.key = ArgumentsHash(cfg))

\* C31 happens: on valid keys, a valid certificate and valid known-hosts, the
\* hash file could not be read; the call has signed and has left the current
\* hash in the file.
C31_Witness ==
    LET c == ck["test"] IN
    /\ c.stage = "returned" /\ ~c.err /\ ~cfg.force /\ ~c.genKeys
    /\ c.d0.hash = Unreadable /\ ~NewCertRequired(c.d0, c.t0)
    /\ c.signs = 1 /\ disk.hash = HashText(ArgumentsHash(cfg))

\* C32: when the context is already cancelled as the closure looks at the
\* subprocess exit, the iteration returns nil and the loop stops, also when
\* the exit code is 254, and the agent process is not ended by it; the loop
\* ends the process with code 1 for exit code 254 only when the context is
\* not cancelled.
C32_CancelPrecedence ==
    [][(looppc = "afterRun" /\ looppc' # "afterRun") =>
          /\ ctxCancelled => (looppc' = "stopped" /\ exited' = exited /\ ck' = ck
                              /\ launches' = launches)
          /\ exited' # exited
                => (~ctxCancelled /\ lastExit = ConnectionLimitReachedCode /\ exited' = 1)]_vars

\* C32 happens: the subprocess ended with code 254, the context was cancelled
\* before the closure looked at it, the loop has stopped, and the agent has
\* ended with code 0.
C32_Witness ==
    /\ looppc = "stopped" /\ lastExit = ConnectionLimitReachedCode /\ ctxCancelled
    /\ ~hist.fatalSeen /\ exited = 0

\* C33: the supervisory loop is started at most once, in the start step after
\* its CreateKeys call and its flags succeeded; a subprocess is launched only
\* while none is alive, and while one is alive the loop waits in cmd.Run: two
\* tunnel subprocesses are never alive at once.
C33_Steps ==
    [][/\ launches' # launches
             => (~proc /\ proc' /\ launches' = launches + 1 /\ looppc = "call")
       /\ (looppc = "off" /\ looppc' # "off")
             => /\ svcState = "Starting" /\ svcpc = "flags" /\ cfg.flagsOK
                /\ hist.startCalls = 1 /\ hist.ckReturns = 1 /\ ~hist.startErr
                /\ launches = 0
       /\ looppc # "off" => looppc' # "off"
       /\ (proc /\ ~proc') => (looppc = "running" /\ looppc' = "afterRun")]_vars

C33_OneSubprocess ==
    /\ [](proc => (looppc = "running" /\ launches >= 1))
    /\ [](looppc # "off" => hist.startCalls = 1)
    /\ C33_Steps

\* C33 happens: the first subprocess has ended and the second one is alive.
C33_Witness ==
    proc /\ launches = 2 /\ looppc = "running" /\ hist.restarts = 1 /\ lastExit = 1

\* C34: the attempt counter of retry.Forever is 1 when Forever is entered and
\* from then on only grows, by one per failed call; the runner has one Forever
\* call, so the backoff computed between tunnel restarts never decreases and
\* is not reset after a tunnel run, however long the run lasted.
C34_Steps ==
    [][/\ (looppc = "off" /\ looppc' # "off") => attempt' = 1
       /\ looppc # "off" => (attempt' = attempt \/ attempt' = attempt + 1)
       /\ attempt' # attempt => (looppc \in {"off", "backoff"} /\ looppc' = "call")
       /\ rf'.backoff >= rf.backoff
       /\ rf'.backoff # rf.backoff
             => (rf'.prevBackoff = rf.backoff /\ rf'.backoff = Backoff(rf.opts, attempt))]_vars

C34_AttemptOnlyGrows ==
    /\ [](looppc # "off" => (attempt >= 1 /\ attempt = hist.restarts + 1
                             - (IF looppc \in {"createKeys", "backoff"} THEN 1 ELSE 0)))
    /\ C34_Steps

\* C34 happens: after a second tunnel run, which lasted for a while, the
\* backoff is longer than after the first.
C34_Witness ==
    /\ looppc = "backoff" /\ attempt = 2 /\ launches = 2
    /\ rf.prevBackoff = 1 /\ rf.backoff = 2
    /\ now > hist.launchNow

\* The service states in the order of the lifecycle.
StateRank(st) ==
    CASE st = "New" -> 0
      [] st = "Starting" -> 1
      [] st = "Running" -> 2
      [] st = "Stopping" -> 3
      [] st = "Terminated" -> 4
      [] st = "Failed" -> 4

\* C35 as stated: the state of the runner only moves from New to Starting,
\* from Starting to Running, from Running to Stopping and from Stopping to
\* Terminated, or from Starting to Failed when the start step returned an
\* error; the subprocess is launched only after the CreateKeys call of the
\* start step succeeded; run() returns nil only with the runner in a terminal
\* state.
C35_ChainOnly ==
    [][/\ svcState' # svcState
             => \/ svcState = "New" /\ svcState' = "Starting"
                \/ svcState = "Starting" /\ svcState' = "Running"
                \/ svcState = "Running" /\ svcState' = "Stopping"
                \/ svcState = "Stopping" /\ svcState' = "Terminated"
                \/ svcState = "Starting" /\ svcState' = "Failed" /\ hist'.startErr
       /\ launches' # launches
             => (hist.startCalls = 1 /\ hist.ckReturns >= 1 /\ ~hist.startErr)
       /\ (exited' = 0 /\ exited # 0) => svcState \in {"Terminated", "Failed"}]_vars

\* C35, amended: as stated, with one more move: from Starting straight to
\* Stopping when the context is cancelled before the start step has returned.
\* The state never goes back.
C35_Lifecycle ==
    [][/\ svcState' # svcState
             => /\ \/ svcState = "New" /\ svcState' = "Starting"
                   \/ svcState = "Starting" /\ svcState' = "Running" /\ ~ctxCancelled
                   \/ svcState = "Starting" /\ svcState' = "Stopping" /\ ctxCancelled
                                            /\ ~hist.startErr
                   \/ svcState = "Running" /\ svcState' = "Stopping"
                   \/ svcState = "Stopping" /\ svcState' = "Terminated"
                   \/ svcState = "Starting" /\ svcState' = "Failed" /\ hist'.startErr
                /\ StateRank(svcState') > StateRank(svcState)
       /\ launches' # launches
             => (hist.startCalls = 1 /\ hist.ckReturns >= 1 /\ ~hist.startErr
                 /\ svcState # "New" /\ svcState # "Failed")
       /\ (exited' = 0 /\ exited # 0) => svcState \in {"Terminated", "Failed"}]_vars

\* C35 happens: the runner went through Running and Stopping to Terminated
\* after a subprocess had been launched, and run() has returned nil.
C35_Witness ==
    /\ svcState = "Terminated" /\ exited = 0 /\ launches >= 1 /\ hist.cancelRunning
    /\ hist.startCalls = 1 /\ ~hist.startErr

====
